---- MODULE Spec2Model ----
(***************************************************************************)
(* Ledger-and-lifecycle engine of the Bachat Gat group-savings app.        *)
(*                                                                         *)
(* One group with its wallet is modelled (groups share no mutable state).  *)
(* Money that the code keeps in floats is modelled exactly: whole amounts  *)
(* are integers, the fractional values (interest components, snapshot      *)
(* percentages, interest shares) are normalised rationals <<n, d>>.        *)
(* Python's round() is modelled as round-half-to-even.  Beside the exact   *)
(* values, binary64 carries the member ledgers' Float columns as IEEE 754  *)
(* double arithmetic computes them; SpecBinary64 follows them.             *)
(* A nullable numeric column that the code only tests for truthiness uses  *)
(* 0 for None; a column tested with "is None" uses NoneVal.                *)
(*                                                                         *)
(* Spec runs every operation from a freshly created group.  The other      *)
(* specifications start from the group with its three members and run a    *)
(* part of the operations: SpecLedger the money operations on one loan,    *)
(* SpecStatus one loan while membership changes, SpecRequest the loan      *)
(* requests of a shrinking group, SpecSnapshot one loan's snapshot and     *)
(* repayments, SpecTerms the edits of one loan's terms, SpecScenario the   *)
(* worked example of the group of three, SpecBinary64 one saver's ledger   *)
(* in double arithmetic, SpecRaceContribute, SpecRaceDisburse and          *)
(* SpecRecalculate two requests whose reads and writes interleave,         *)
(* SpecAmortization the three interest methods under every group setting,  *)
(* SpecMembership the membership operations from the group's creation on,  *)
(* SpecLateJoiner a fourth user who joins during a vote.                   *)
(***************************************************************************)
EXTENDS Integers, Sequences, FiniteSets, TLC

\* ------------------------------------------------------------------ bounds
MaxContribs == 2
MaxLoans == 2
MaxRepayments == 2
NumKeys == 1

\* --------------------------------------------------------- input domains
Users == {"A", "B", "C"}
Creator == "A"
NoneVal == -1
NoKey == 0
ClientKeys == 1..NumKeys
ContribAmounts == {0, 4000, 6000}
LoanAmounts == {0, 3000}
RepayAmounts == {0, 1000, 5000}

\* ------------------------------------------------------------- rationals
RECURSIVE GCD(_, _)
GCD(a, b) == IF b = 0 THEN a ELSE GCD(b, a % b)

\* the fraction n/d in lowest terms; a whole number is in lowest terms already
Rat(n, d) ==
    IF n = 0 THEN <<0, 1>>
    ELSE IF d = 1 THEN <<n, 1>>
    ELSE LET g == GCD(n, d) IN <<n \div g, d \div g>>
RZero == <<0, 1>>
RInt(n) == <<n, 1>>
RAdd(x, y) ==
    IF x[2] = 1 /\ y[2] = 1 THEN <<x[1] + y[1], 1>>
    ELSE LET g == GCD(x[2], y[2])
         IN  Rat(x[1] * (y[2] \div g) + y[1] * (x[2] \div g), (x[2] \div g) * y[2])
RSub(x, y) ==
    IF x[2] = 1 /\ y[2] = 1 THEN <<x[1] - y[1], 1>>
    ELSE LET g == GCD(x[2], y[2])
         IN  Rat(x[1] * (y[2] \div g) - y[1] * (x[2] \div g), (x[2] \div g) * y[2])
RMul(x, y) == LET a == Rat(x[1], y[2])
                  b == Rat(y[1], x[2])
              IN  <<a[1] * b[1], a[2] * b[2]>>
RPos(x) == x[1] > 0

\* Python round(): nearest integer, ties to the even one (n >= 0, d > 0).
RoundHalfEven(n, d) ==
    LET q == n \div d
        r == n % d
    IN  IF 2 * r < d THEN q
        ELSE IF 2 * r > d THEN q + 1
        ELSE IF q % 2 = 0 THEN q ELSE q + 1

\* ------------------------------------------------- binary64 (db.Float)
\* Natural numbers of any size as little-endian sequences of 15-bit limbs.
Limb == 32768
LimbBits == 15
MantissaBits == 53

RECURSIVE BigNorm(_)
BigNorm(a) ==
    IF a = <<>> THEN <<>>
    ELSE IF a[Len(a)] = 0 THEN BigNorm(SubSeq(a, 1, Len(a) - 1)) ELSE a

BigAdd(a, b) ==
    LET RECURSIVE AddC(_, _, _)
        AddC(x, y, c) ==
            IF x = <<>> /\ y = <<>> THEN (IF c = 0 THEN <<>> ELSE <<c>>)
            ELSE LET s == (IF x = <<>> THEN 0 ELSE Head(x))
                          + (IF y = <<>> THEN 0 ELSE Head(y)) + c
                 IN  <<s % Limb>> \o AddC(IF x = <<>> THEN <<>> ELSE Tail(x),
                                          IF y = <<>> THEN <<>> ELSE Tail(y),
                                          s \div Limb)
    IN  AddC(a, b, 0)

\* a - b for a >= b
BigSub(a, b) ==
    LET RECURSIVE SubB(_, _, _)
        SubB(x, y, borrow) ==
            IF x = <<>> THEN <<>>
            ELSE LET d == Head(x) - (IF y = <<>> THEN 0 ELSE Head(y)) - borrow
                     rest == IF y = <<>> THEN <<>> ELSE Tail(y)
                 IN  IF d < 0 THEN <<d + Limb>> \o SubB(Tail(x), rest, 1)
                     ELSE <<d>> \o SubB(Tail(x), rest, 0)
    IN  BigNorm(SubB(a, b, 0))

\* -1, 0, 1 for a < b, a = b, a > b (normalised operands)
BigCmp(a, b) ==
    LET RECURSIVE From(_)
        From(i) == IF i = 0 THEN 0
                   ELSE IF a[i] < b[i] THEN -1
                   ELSE IF a[i] > b[i] THEN 1
                   ELSE From(i - 1)
    IN  IF Len(a) < Len(b) THEN -1
        ELSE IF Len(a) > Len(b) THEN 1
        ELSE From(Len(a))

BigMulSmall(a, k) ==
    LET RECURSIVE MulC(_, _)
        MulC(x, c) ==
            IF x = <<>> THEN (IF c = 0 THEN <<>> ELSE <<c>>)
            ELSE LET p == Head(x) * k + c
                 IN  <<p % Limb>> \o MulC(Tail(x), p \div Limb)
    IN  BigNorm(MulC(a, 0))

BigShl(a, n) ==
    LET x == BigMulSmall(a, 2 ^ (n % LimbBits))
    IN  IF x = <<>> THEN <<>> ELSE [i \in 1..(n \div LimbBits) |-> 0] \o x

\* floor(a / 2^n), limb by limb from the top
BigShr(a, n) ==
    LET k == 2 ^ (n % LimbBits)
        x == IF n \div LimbBits >= Len(a) THEN <<>>
             ELSE SubSeq(a, (n \div LimbBits) + 1, Len(a))
        RECURSIVE DivFrom(_, _)
        DivFrom(i, rem) ==
            IF i = 0 THEN <<>>
            ELSE LET d == rem * Limb + x[i]
                 IN  DivFrom(i - 1, d % k) \o <<d \div k>>
    IN  BigNorm(DivFrom(Len(x), 0))

\* <<q, r - q * b>> where q collects the quotient bits hi..lo of r / b
\* (r < b * 2^(hi+1)); the range is halved so that the depth stays small
RECURSIVE BigDivBits(_, _, _, _)
BigDivBits(r, b, hi, lo) ==
    IF hi = lo
    THEN LET d == BigShl(b, hi)
         IN  IF BigCmp(r, d) >= 0 THEN <<BigShl(<<1>>, hi), BigSub(r, d)>>
             ELSE <<(<<>>), r>>
    ELSE LET mid == (hi + lo) \div 2
             top == BigDivBits(r, b, hi, mid + 1)
             bot == BigDivBits(top[2], b, mid, lo)
         IN  <<BigAdd(top[1], bot[1]), bot[2]>>

\* A finite non-negative binary64 value is <<e, m>> with value m * 2^e and
\* 2^52 <= m < 2^53; zero is <<0, <<>>>>.  Subnormals, infinities and NaN do
\* not arise from the amounts of the model.
FZero == <<0, <<>>>>

\* n * 2^e rounded to 53 bits, ties to even
FRound(n, e) ==
    LET RECURSIVE BitLenSmall(_)
        BitLenSmall(k) == IF k = 0 THEN 0 ELSE 1 + BitLenSmall(k \div 2)
        BitLen(a) == IF a = <<>> THEN 0
                     ELSE (Len(a) - 1) * LimbBits + BitLenSmall(a[Len(a)])
        s == BitLen(n) - MantissaBits
        q == BigShr(n, s)
        rem == BigSub(n, BigShl(q, s))
        half == BigShl(<<1>>, s - 1)
        up == BigCmp(rem, half) > 0 \/ (BigCmp(rem, half) = 0 /\ q[1] % 2 = 1)
        r == IF up THEN BigAdd(q, <<1>>) ELSE q
    IN  IF n = <<>> THEN FZero
        ELSE IF s <= 0 THEN <<e + s, BigShl(n, -s)>>
        ELSE IF BitLen(r) > MantissaBits THEN <<e + s + 1, BigShr(r, 1)>>
        ELSE <<e + s, r>>

FInt(n) ==
    LET RECURSIVE OfInt(_)
        OfInt(k) == IF k = 0 THEN <<>> ELSE <<k % Limb>> \o OfInt(k \div Limb)
    IN  FRound(OfInt(n), 0)

FAdd(x, y) ==
    LET e == IF x[1] < y[1] THEN x[1] ELSE y[1]
    IN  IF x[2] = <<>> THEN y
        ELSE IF y[2] = <<>> THEN x
        ELSE FRound(BigAdd(BigShl(x[2], x[1] - e), BigShl(y[2], y[1] - e)), e)

FMul(x, y) ==
    LET RECURSIVE Mul(_)
        Mul(b) == IF b = <<>> THEN <<>>
                  ELSE LET rest == Mul(Tail(b))
                       IN  BigAdd(BigMulSmall(x[2], Head(b)),
                                  IF rest = <<>> THEN <<>> ELSE <<0>> \o rest)
    IN  IF x[2] = <<>> \/ y[2] = <<>> THEN FZero
        ELSE FRound(Mul(y[2]), x[1] + y[1])

\* 55 quotient bits and a sticky bit decide the rounding
FDiv(x, y) ==
    LET qr == BigDivBits(BigShl(x[2], 55), y[2], 56, 0)
        sticky == IF qr[2] = <<>> THEN <<>> ELSE <<1>>
    IN  IF x[2] = <<>> THEN FZero
        ELSE FRound(BigAdd(BigMulSmall(qr[1], 2), sticky), x[1] - y[1] - 56)

\* ----------------------------------------------------------------- state
VARIABLES
    group,         \* Group settings: default terms, use_flat_rate
    members,       \* GroupMember rows: user -> [active, role, former]
    wallet,        \* GroupWallet cache
    ledger,        \* WalletTransaction rows, in insertion order
    memberLedger,  \* MemberLedger rows: user -> record (id 0: no row)
    loans,         \* LoanRequest rows (with their EMISchedule rows), by id
    votes,         \* LoanApproval rows
    snapshots,     \* LoanContributionSnapshot rows
    repayments,    \* LoanRepayment rows, by id
    distributions, \* InterestDistribution rows
    lastOp,        \* the last call and its outcome (error kind)
    inflight,      \* requests that have done their reads and not yet written
    binary64       \* the member ledgers' Float columns as the floats compute them

dbvars == <<group, members, wallet, ledger, memberLedger, loans, votes,
            snapshots, repayments, distributions>>
vars == <<group, members, wallet, ledger, memberLedger, loans, votes,
          snapshots, repayments, distributions, lastOp, inflight, binary64>>

Op(name, res, id, key) == [op |-> name, res |-> res, id |-> id, key |-> key]

\* a call that runs from its first read to its commit with nothing in between
Return(name, res, id, key) == lastOp' = Op(name, res, id, key) /\ UNCHANGED inflight

\* ... and computes no Float column of a member ledger
Done(name, res, id, key) == Return(name, res, id, key) /\ UNCHANGED binary64

Sessions == {1, 2}
NewWallet == [balance |-> 0, total_contributed |-> 0, total_disbursed |-> 0,
              total_interest_earned |-> <<0, 1>>, is_dirty |-> FALSE]
Idle == [pc |-> "idle", user |-> "", amount |-> 0, key |-> NoKey, loan |-> 0,
         wallet |-> NewWallet]

\* ------------------------------------------------------ membership reads
is_group_member(u) == members[u].active
is_group_admin(u) == members[u].active /\ members[u].role = "admin"
get_active_member_count == Cardinality({u \in DOMAIN members : members[u].active})

\* ---------------------------------------------------------- ledger reads
RECURSIVE SumAmounts(_)
SumAmounts(s) == IF s = <<>> THEN 0 ELSE Head(s).amount + SumAmounts(Tail(s))

NonReversed(s) == SelectSeq(s, LAMBDA t : ~t.is_reversed)
OfType(s, ty) == SelectSeq(s, LAMBDA t : t.transaction_type = ty)
LedgerSum == SumAmounts(NonReversed(ledger))
Abs(x) == IF x < 0 THEN -x ELSE x

check_idempotency_reversed_only(key) ==
    \E i \in 1..Len(ledger) : ledger[i].idempotency_key = key /\ ledger[i].is_reversed

\* check_idempotency(idempotency_key): a row with the key exists
check_idempotency(key) == \E i \in 1..Len(ledger) : ledger[i].idempotency_key = key

\* uuid4-based keys never collide: the n-th generated key is -n.
generate_idempotency_key ==
    -(Cardinality({i \in 1..Len(ledger) : ledger[i].idempotency_key < 0}) + 1)

WalletTransaction_unsigned(ty, amt, bal, refty, refid, by, benef, key) ==
    [transaction_type |-> ty, amount |-> Abs(amt), balance_after |-> bal,
     reference_type |-> refty, reference_id |-> refid, created_by |-> by,
     beneficiary_id |-> benef, idempotency_key |-> key, is_reversed |-> FALSE]

WalletTransaction(ty, amt, bal, refty, refid, by, benef, key) ==
    [transaction_type |-> ty, amount |-> amt, balance_after |-> bal,
     reference_type |-> refty, reference_id |-> refid, created_by |-> by,
     beneficiary_id |-> benef, idempotency_key |-> key, is_reversed |-> FALSE]

\* id = 0: no row yet; rows are numbered in creation order
NoLedger == [id |-> 0, principal_contributed |-> 0,
             interest_earned |-> RZero, total_balance |-> RZero]

get_or_create_member_ledger(ml, u) ==
    IF ml[u].id # 0 THEN ml
    ELSE [ml EXCEPT ![u].id = Cardinality({v \in DOMAIN ml : ml[v].id # 0}) + 1]

\* The Float columns of the member ledgers (models.py: db.Float) and the
\* interest component of each repayment, computed in binary64 in the order the
\* code computes them.  They are followed only while tracked is set.
Untracked ==
    [tracked |-> FALSE,
     memberLedger |-> [u \in Users |->
                         [principal_contributed |-> FZero, interest_earned |-> FZero,
                          total_balance |-> FZero]],
     interest_component |-> <<>>]
Tracked == [Untracked EXCEPT !.tracked = TRUE]

\* "ledger.principal_contributed += amount; ledger.total_balance += amount"
Contribute64(b, u, amount) ==
    IF ~b.tracked THEN b
    ELSE [b EXCEPT !.memberLedger[u].principal_contributed = FAdd(@, FInt(amount)),
                   !.memberLedger[u].total_balance = FAdd(@, FInt(amount))]

\* "interest_ratio = loan.total_interest / loan.total_repayable
\*  interest_component = actual_amount * interest_ratio"
Submit64(b, loan, actual_amount) ==
    IF ~b.tracked THEN b
    ELSE [b EXCEPT !.interest_component = Append(@,
             IF loan.total_repayable # 0 /\ loan.total_interest > 0
             THEN FMul(FInt(actual_amount),
                       FDiv(FInt(loan.total_interest), FInt(loan.total_repayable)))
             ELSE FZero)]

\* "percentage = (ledger.principal_contributed / total_eligible_pool) * 100"
\* "interest_share = (snapshot.contribution_percentage / 100) * interest_amount
\*  ledger.interest_earned += interest_share; ledger.total_balance += interest_share"
RECURSIVE Distribute64(_, _, _)
Distribute64(snaps, interest_amount, ml) ==
    IF snaps = <<>> THEN ml
    ELSE LET u == Head(snaps).user_id
             percentage ==
                 FMul(FDiv(FInt(Head(snaps).contribution_amount),
                           FInt(Head(snaps).total_eligible_pool)),
                      FInt(100))
             interest_share == FMul(FDiv(percentage, FInt(100)), interest_amount)
         IN  Distribute64(Tail(snaps), interest_amount,
                 IF interest_share = FZero THEN ml
                 ELSE [ml EXCEPT ![u].interest_earned = FAdd(@, interest_share),
                                 ![u].total_balance = FAdd(@, interest_share)])

\* ---------------------------------------------------------- amortization
RRound(x) == RoundHalfEven(x[1], x[2])
Round2(x) == Rat(RoundHalfEven(x[1] * 100, x[2]), 100)
RMax0(x) == IF x[1] < 0 THEN RZero ELSE x
RPow(x, n) == LET F[k \in 0..n] == IF k = 0 THEN <<1, 1>> ELSE RMul(F[k - 1], x) IN F[n]
RDiv(x, y) == RMul(x, <<y[2], y[1]>>)

EMIRow(i, emi, pc, ic, ob, cb) ==
    [id |-> 0, installment_number |-> i, emi_amount |-> emi, principal_component |-> pc,
     interest_component |-> ic, opening_balance |-> ob, closing_balance |-> cb,
     is_paid |-> FALSE, paid_amount |-> 0]

\* principal * rate * (months / 12) / 100, before rounding
SimpleInterest(principal, rate, months) == Rat(principal * rate * months, 1200)

\* generate_emi_schedule(loan): flat rate, rows rounded to 2 decimals
RECURSIVE FlatRows(_, _, _, _, _, _)
FlatRows(i, n, balance, ppm, ipm, ti) ==
    IF i > n THEN <<>>
    ELSE LET last == (i = n)
             pc == IF last THEN balance ELSE ppm
             ic == IF last THEN RSub(RInt(ti), RMul(ipm, RInt(n - 1))) ELSE ipm
             closing == RSub(balance, pc)
         IN  <<EMIRow(i, Round2(RAdd(pc, ic)), Round2(pc), Round2(ic),
                      Round2(balance), Round2(RMax0(closing)))>>
             \o FlatRows(i + 1, n, closing, ppm, ipm, ti)

generate_emi_schedule(loan) ==
    LET n == loan.loan_duration_months
        ppm == Rat(loan.approved_amount, n)
        ipm == Rat(loan.total_interest, n)
    IN  [loan EXCEPT
            !.emi_amount = Round2(RAdd(ppm, ipm)),
            !.emis = @ \o FlatRows(1, n, RInt(loan.approved_amount), ppm, ipm,
                                   loan.total_interest)]

\* generate_emi_schedule_reducing_balance(loan): rows rounded to whole units
ReducingEMI(principal, rate, n) ==
    LET r == Rat(rate, 1200)
        g == RPow(RAdd(RInt(1), r), n)
    IN  IF rate > 0
        THEN RRound(RDiv(RMul(RMul(RInt(principal), r), g), RSub(g, RInt(1))))
        ELSE RRound(Rat(principal, n))

RECURSIVE ReducingRows(_, _, _, _, _)
ReducingRows(i, n, balance, r, emi) ==
    IF i > n THEN <<>>
    ELSE LET last == (i = n)
             ic0 == RMul(balance, r)
             pc == IF last THEN balance ELSE RSub(RInt(emi), ic0)
             ic == IF last THEN RMax0(RSub(RInt(emi), pc)) ELSE ic0
             closing == RSub(balance, pc)
         IN  <<EMIRow(i, RInt(emi), RInt(RRound(pc)), RInt(RRound(ic)),
                      RInt(RRound(balance)), RInt(RRound(RMax0(closing))))>>
             \o ReducingRows(i + 1, n, closing, r, emi)

generate_emi_schedule_reducing_balance(loan) ==
    LET n == loan.loan_duration_months
        principal == loan.approved_amount
        emi == ReducingEMI(principal, loan.interest_rate, n)
        ti == emi * n - principal
    IN  [loan EXCEPT
            !.emi_amount = RInt(emi),
            !.total_interest = ti,
            !.total_repayable = principal + ti,
            !.emis = @ \o ReducingRows(1, n, RInt(principal),
                                       Rat(loan.interest_rate, 1200), emi)]

\* approve_loan_with_interest(loan, is_regeneration): the loan row it leaves
approve_loan_with_interest(loan0, is_regeneration) ==
    LET l1 == [loan0 EXCEPT
                  !.interest_rate = IF @ = NoneVal THEN group.default_interest_rate ELSE @,
                  !.loan_duration_months =
                      IF @ = NoneVal THEN group.default_loan_duration_months ELSE @,
                  !.repayment_type =
                      IF @ = "none" THEN group.default_repayment_type ELSE @,
                  !.approved_amount =
                      IF @ = 0 THEN loan0.amount
                      ELSE IF is_regeneration /\ @ # loan0.amount THEN loan0.amount
                      ELSE @]
        ti == SimpleInterest(l1.approved_amount, l1.interest_rate, l1.loan_duration_months)
        tr == RAdd(RInt(l1.approved_amount), ti)
        l2 == [l1 EXCEPT !.emis = IF is_regeneration THEN <<>> ELSE @]
    IN  IF l1.repayment_type = "emi"
        THEN IF group.use_flat_rate
             THEN generate_emi_schedule(
                      [l2 EXCEPT !.total_interest = RRound(ti),
                                 !.total_repayable = RRound(tr)])
             ELSE generate_emi_schedule_reducing_balance(l2)
        ELSE [l1 EXCEPT !.total_interest = RRound(ti),
                        !.total_repayable = RRound(tr),
                        !.emi_amount = RZero]

\* EMISchedule ids are SQLite rowids: one more than the largest id in use.
MaxSet(S) == IF S = {} THEN 0 ELSE CHOOSE x \in S : \A y \in S : y <= x
EmiIdsExcept(l) ==
    UNION {{loans[k].emis[i].id : i \in 1..Len(loans[k].emis)} : k \in 1..Len(loans) \ {l}}
\* the rows just inserted for loan l (id 0) receive the next row ids
NumberRows(l, loan) ==
    LET base == MaxSet(EmiIdsExcept(l))
    IN  [loan EXCEPT !.emis = [i \in 1..Len(@) |->
            IF @[i].id = 0 THEN [@[i] EXCEPT !.id = base + i] ELSE @[i]]]

\* unique_loan_installment: two rows of one loan with the same number
ScheduleConflict(loan) ==
    \E i, j \in 1..Len(loan.emis) :
        i # j /\ loan.emis[i].installment_number = loan.emis[j].installment_number

\* ------------------------------------------------------------------ Init
GroupSettings ==
    {[default_interest_rate |-> 10, default_loan_duration_months |-> 12,
      default_repayment_type |-> "bullet", use_flat_rate |-> FALSE]}

Init ==
    /\ group \in GroupSettings
    /\ members = [u \in Users |->
                    IF u = Creator
                    THEN [active |-> TRUE, role |-> "admin", former |-> FALSE]
                    ELSE [active |-> FALSE, role |-> "member", former |-> FALSE]]
    /\ wallet = NewWallet
    /\ ledger = <<>>
    /\ memberLedger = [u \in Users |-> NoLedger]
    /\ loans = <<>>
    /\ votes = {}
    /\ snapshots = {}
    /\ repayments = <<>>
    /\ distributions = <<>>
    /\ lastOp = Op("create_group", "ok", 0, NoKey)
    /\ inflight = [s \in Sessions |-> Idle]
    /\ binary64 = Untracked

\* ----------------------------------------------------------- contribution
\* contribute_to_wallet(wallet_id, user_id, amount, idempotency_key)
ContributeResult(u, amount, key) ==
    IF amount <= 0 THEN "InvalidAmountError"
    ELSE IF ~is_group_member(u) THEN "WalletError"
    ELSE IF key # NoKey /\ check_idempotency(key) THEN "DuplicateTransactionError"
    ELSE "ok"

contribute_to_wallet(u, amount, key) ==
    \E res \in {ContributeResult(u, amount, key)} :
    LET k == IF key = NoKey THEN generate_idempotency_key ELSE key
        new_balance == wallet.balance + amount
        ml == get_or_create_member_ledger(memberLedger, u)
    IN  /\ Return("contribute", res, 0, key)
        /\ binary64' = IF res = "ok" THEN Contribute64(binary64, u, amount) ELSE binary64
        /\ IF res = "ok"
           THEN /\ Len(OfType(ledger, "contribution")) < MaxContribs
                /\ ledger' = Append(ledger,
                       WalletTransaction("contribution", amount, new_balance,
                                         "contribution",
                                         Len(OfType(ledger, "contribution")) + 1,
                                         u, "", k))
                /\ memberLedger' = [ml EXCEPT
                       ![u].principal_contributed = @ + amount,
                       ![u].total_balance = RAdd(@, RInt(amount))]
                /\ wallet' = [wallet EXCEPT !.balance = new_balance,
                                            !.total_contributed = @ + amount,
                                            !.is_dirty = FALSE]
                /\ UNCHANGED <<group, members, loans, votes, snapshots,
                               repayments, distributions>>
           ELSE UNCHANGED dbvars

Contribute(callers, amounts, keys) ==
    \E u \in callers, amount \in amounts, key \in keys :
        contribute_to_wallet(u, amount, key)

\* ----------------------------------------------------------- recalculate
was_corrected_inclusive(difference) == Abs(difference) >= 0

\* "if abs(difference) > 0.01"; the amounts in the ledger are whole
was_corrected(difference) == Abs(difference) > 0

\* a recalculation that also clears the rows that move no money
recalculate_wallet_balance_pruning ==
    LET transactions == NonReversed(ledger)
        calculated_balance == SumAmounts(transactions)
        difference == calculated_balance - wallet.balance
    IN  /\ ledger' = SelectSeq(ledger, LAMBDA t : t.amount # 0)
        /\ wallet' = [wallet EXCEPT !.balance = calculated_balance, !.is_dirty = FALSE]
        /\ Done("recalculate", IF was_corrected(difference) THEN "corrected" ELSE "ok",
                0, NoKey)
        /\ UNCHANGED <<group, members, memberLedger, loans, votes,
                       snapshots, repayments, distributions>>

\* recalculate_wallet_balance(wallet_id)
recalculate_wallet_balance ==
    LET transactions == NonReversed(ledger)
        calculated_balance == SumAmounts(transactions)
        contributions == SumAmounts(OfType(transactions, "contribution"))
        disbursements == -SumAmounts(OfType(transactions, "loan_disbursement"))
        difference == calculated_balance - wallet.balance
    IN  /\ wallet' = IF was_corrected(difference)
                     THEN [wallet EXCEPT !.balance = calculated_balance,
                                         !.total_contributed = contributions,
                                         !.total_disbursed = disbursements,
                                         !.is_dirty = FALSE]
                     ELSE [wallet EXCEPT !.is_dirty = FALSE]
        /\ Done("recalculate", IF was_corrected(difference) THEN "corrected" ELSE "ok",
                0, NoKey)
        /\ UNCHANGED <<group, members, ledger, memberLedger, loans, votes,
                       snapshots, repayments, distributions>>

Recalculate == recalculate_wallet_balance

\* ------------------------------------------------------------ membership
AdminCount == Cardinality({u \in DOMAIN members : is_group_admin(u)})
LoanIds == 1..Len(loans)
RepaymentIds == 1..Len(repayments)

get_remaining_amount(loan) ==
    IF loan.total_repayable = 0 THEN 0 ELSE loan.total_repayable - loan.total_repaid
is_fully_repaid(loan) ==
    IF loan.total_repayable = 0 THEN FALSE ELSE loan.total_repaid >= loan.total_repayable

can_leave_group_unguarded(u) ==
    /\ is_group_member(u)
    /\ ~\E l \in LoanIds : /\ loans[l].requested_by = u
                           /\ loans[l].status \in {"pending", "approved", "disbursed"}
    /\ ~\E r \in RepaymentIds : /\ repayments[r].paid_by = u
                                /\ repayments[r].status = "pending"

\* can_leave_group(user_id, group_id)
can_leave_group(u) ==
    /\ is_group_member(u)
    /\ ~\E l \in LoanIds : /\ loans[l].requested_by = u
                           /\ loans[l].status \in {"pending", "approved", "disbursed"}
    /\ ~\E r \in RepaymentIds : /\ repayments[r].paid_by = u
                                /\ repayments[r].status = "pending"
    /\ ~(members[u].role = "admin" /\ AdminCount = 1)

\* can_transfer_admin(from_user_id, to_user_id, group_id)
can_transfer_admin(from, to) ==
    /\ is_group_member(from)
    /\ members[from].role = "admin"
    /\ is_group_member(to)
    /\ members[to].role # "admin"

OnlyMembers == <<group, wallet, ledger, memberLedger, loans, votes, snapshots,
                 repayments, distributions>>

SoftDelete_refreezing(opname, u) ==
    IF members[u].former
    THEN /\ Done(opname, "MembershipError", 0, NoKey)
         /\ UNCHANGED dbvars
    ELSE /\ members' = [members EXCEPT ![u].active = FALSE, ![u].former = TRUE]
         /\ loans' = [l \in DOMAIN loans |->
                IF loans[l].status = "pending"
                THEN [loans[l] EXCEPT
                        !.total_eligible_voters = get_active_member_count - 2,
                        !.required_approvals = ((get_active_member_count - 2) \div 2) + 1]
                ELSE loans[l]]
         /\ Done(opname, "ok", 0, NoKey)
         /\ UNCHANGED <<group, wallet, ledger, memberLedger, votes, snapshots,
                        repayments, distributions>>

\* GroupMember.soft_delete and commit; unique_active_group_member allows one
\* inactive row per (group, user), so a second departure fails at commit.
SoftDelete(opname, u) ==
    IF members[u].former
    THEN /\ Done(opname, "MembershipError", 0, NoKey)
         /\ UNCHANGED dbvars
    ELSE /\ members' = [members EXCEPT ![u].active = FALSE, ![u].former = TRUE]
         /\ Done(opname, "ok", 0, NoKey)
         /\ UNCHANGED OnlyMembers

add_member(u, by) ==
    IF ~is_group_admin(by)
    THEN Done("add_member", "AuthorizationError", 0, NoKey) /\ UNCHANGED dbvars
    ELSE IF is_group_member(u)
    THEN Done("add_member", "MembershipError", 0, NoKey) /\ UNCHANGED dbvars
    ELSE /\ members' = [members EXCEPT ![u].active = TRUE, ![u].role = "member"]
         /\ Done("add_member", "ok", 0, NoKey)
         /\ UNCHANGED OnlyMembers

leave_group(u) ==
    IF ~can_leave_group(u)
    THEN Done("leave_group", "AuthorizationError", 0, NoKey) /\ UNCHANGED dbvars
    ELSE SoftDelete("leave_group", u)

remove_member(u, by) ==
    IF ~is_group_admin(by)
    THEN Done("remove_member", "AuthorizationError", 0, NoKey) /\ UNCHANGED dbvars
    ELSE IF u = by \/ ~can_leave_group(u)
    THEN Done("remove_member", "MembershipError", 0, NoKey) /\ UNCHANGED dbvars
    ELSE SoftDelete("remove_member", u)

transfer_admin(from, to) ==
    IF ~can_transfer_admin(from, to)
    THEN Done("transfer_admin", "AuthorizationError", 0, NoKey) /\ UNCHANGED dbvars
    ELSE /\ members' = [members EXCEPT ![from].role = "member", ![to].role = "admin"]
         /\ Done("transfer_admin", "ok", 0, NoKey)
         /\ UNCHANGED OnlyMembers

AddMember(callers, targets) == \E by \in callers, u \in targets : add_member(u, by)
LeaveGroup(callers) == \E u \in callers : leave_group(u)
RemoveMember(callers, targets) == \E by \in callers, u \in targets : remove_member(u, by)
TransferAdmin(callers, targets) ==
    \E from \in callers, to \in targets : transfer_admin(from, to)

\* ---------------------------------------------------------- loan requests
LoanRequest(u, amount, eligible, required) ==
    [requested_by |-> u, amount |-> amount, status |-> "pending",
     total_eligible_voters |-> eligible, required_approvals |-> required,
     interest_rate |-> NoneVal, loan_duration_months |-> NoneVal,
     repayment_type |-> "none", approved_amount |-> 0, total_interest |-> 0,
     total_repayable |-> 0, emi_amount |-> RZero,
     total_principal_repaid |-> RZero, total_interest_repaid |-> RZero,
     total_repaid |-> 0, emis |-> <<>>]

OnlyLoans == <<group, members, wallet, ledger, memberLedger, votes, snapshots,
               repayments, distributions>>

CreateLoanResult_no_pending_check(u, amount) ==
    IF amount <= 0 THEN "LoanError"
    ELSE IF amount > wallet.balance THEN "LoanError"
    ELSE IF ~is_group_member(u) THEN "AuthorizationError"
    ELSE IF get_active_member_count - 1 < 1 THEN "LoanError"
    ELSE "ok"

\* create_loan_request(group_id, user_id, amount, reason)
CreateLoanResult(u, amount) ==
    IF amount <= 0 THEN "LoanError"
    ELSE IF amount > wallet.balance THEN "LoanError"
    ELSE IF ~is_group_member(u) THEN "AuthorizationError"
    ELSE IF \E l \in LoanIds : loans[l].requested_by = u /\ loans[l].status = "pending"
         THEN "LoanError"
    ELSE IF get_active_member_count - 1 < 1 THEN "LoanError"
    ELSE "ok"

create_loan_request_half(u, amount) ==
    LET res == CreateLoanResult(u, amount)
        eligible_voters == get_active_member_count - 1
        required_approvals == (eligible_voters + 1) \div 2
    IN  IF res = "ok"
        THEN /\ loans' = Append(loans, LoanRequest(u, amount, eligible_voters,
                                                   required_approvals))
             /\ Done("create_loan_request", "ok", Len(loans) + 1, NoKey)
             /\ UNCHANGED OnlyLoans
        ELSE Done("create_loan_request", res, 0, NoKey) /\ UNCHANGED dbvars

create_loan_request(u, amount) ==
    \E res \in {CreateLoanResult(u, amount)} :
    LET eligible_voters == get_active_member_count - 1
        required_approvals == (eligible_voters \div 2) + 1
    IN  IF res = "ok"
        THEN /\ loans' = Append(loans, LoanRequest(u, amount, eligible_voters,
                                                   required_approvals))
             /\ Done("create_loan_request", "ok", Len(loans) + 1, NoKey)
             /\ UNCHANGED OnlyLoans
        ELSE Done("create_loan_request", res, 0, NoKey) /\ UNCHANGED dbvars

\* maxLoans bounds the loans created; a request that is refused is always possible
CreateLoan(callers, amounts, maxLoans) ==
    \E u \in callers, amount \in amounts :
        /\ Len(loans) < maxLoans \/ CreateLoanResult(u, amount) # "ok"
        /\ create_loan_request(u, amount)

\* ------------------------------------------------------------------ votes
can_vote_again(u, l) ==
    /\ loans[l].status = "pending"
    /\ is_group_member(u)
    /\ loans[l].requested_by # u

\* can_vote(user_id, loan_id)
can_vote(u, l) ==
    /\ loans[l].status = "pending"
    /\ is_group_member(u)
    /\ loans[l].requested_by # u
    /\ ~\E v \in votes : v.loan_id = l /\ v.user_id = u

get_approval_count_any(vs, l) == Cardinality({v \in vs : v.loan_id = l})
get_approval_count(vs, l) == Cardinality({v \in vs : v.loan_id = l /\ v.approved})
get_rejection_count_approved(vs, l) == Cardinality({v \in vs : v.loan_id = l /\ v.approved})
get_rejection_count(vs, l) == Cardinality({v \in vs : v.loan_id = l /\ ~v.approved})

Min(a, b) == IF a < b THEN a ELSE b

EffectiveRequired_frozen(l) == loans[l].required_approvals

\* "DYNAMIC ADJUSTMENT FOR MEMBER DEPARTURE": the bar in force at a vote
EffectiveRequired(l) ==
    LET current_eligible_voters == get_active_member_count - 1
        effective_eligible == Min(loans[l].total_eligible_voters, current_eligible_voters)
    IN  (effective_eligible \div 2) + 1

StatusOnMajority_single_admin(requested_by) ==
    IF AdminCount = 1 THEN "approved" ELSE "pre_approved"

\* "Apply admin auto-approve logic": is_applicant_admin and only_one_admin
StatusOnMajority(requested_by) ==
    IF is_group_admin(requested_by) /\ AdminCount = 1
    THEN "approved" ELSE "pre_approved"

\* cast_vote(loan_id, user_id, approved)
cast_vote(l, u, approved) ==
    IF ~can_vote(u, l)
    THEN Done("cast_vote", "AuthorizationError", l, NoKey) /\ UNCHANGED dbvars
    ELSE
    LET loan == loans[l]
        vs == votes \cup {[loan_id |-> l, user_id |-> u, approved |-> approved]}
        approval_count == get_approval_count(vs, l)
        rejection_count == get_rejection_count(vs, l)
        votes_cast == approval_count + rejection_count
        effective_required == EffectiveRequired(l)
        withTerms == approve_loan_with_interest(loan, FALSE)
    IN  IF ~is_group_member(loan.requested_by)
        THEN /\ votes' = vs
             /\ loans' = [loans EXCEPT ![l].status = "rejected"]
             /\ Done("cast_vote", "ok", l, NoKey)
             /\ UNCHANGED <<group, members, wallet, ledger, memberLedger, snapshots,
                            repayments, distributions>>
        ELSE IF approval_count >= effective_required /\ votes_cast > 0
        THEN IF ScheduleConflict(withTerms)
             THEN Done("cast_vote", "LoanError", l, NoKey) /\ UNCHANGED dbvars
             ELSE /\ votes' = vs
                  /\ loans' = [loans EXCEPT ![l] =
                        [NumberRows(l, withTerms) EXCEPT !.status =
                            StatusOnMajority(loan.requested_by)]]
                  /\ Done("cast_vote", "ok", l, NoKey)
                  /\ UNCHANGED <<group, members, wallet, ledger, memberLedger,
                                 snapshots, repayments, distributions>>
        ELSE /\ votes' = vs
             /\ loans' = IF rejection_count >= effective_required
                         THEN [loans EXCEPT ![l].status = "rejected"]
                         ELSE loans
             /\ Done("cast_vote", "ok", l, NoKey)
             /\ UNCHANGED <<group, members, wallet, ledger, memberLedger, snapshots,
                            repayments, distributions>>

CastVote(callers) ==
    \E l \in LoanIds, u \in callers, approved \in BOOLEAN : cast_vote(l, u, approved)

final_approve_loan_own(l, u) ==
    IF ~is_group_admin(u) \/ loans[l].status # "pre_approved"
    THEN Done("final_approve_loan", "flash", l, NoKey) /\ UNCHANGED dbvars
    ELSE /\ loans' = [loans EXCEPT ![l].status = "approved"]
         /\ Done("final_approve_loan", "ok", l, NoKey)
         /\ UNCHANGED OnlyLoans

final_approve_loan_any_status(l, u) ==
    IF ~is_group_admin(u) \/ loans[l].requested_by = u
    THEN Done("final_approve_loan", "flash", l, NoKey) /\ UNCHANGED dbvars
    ELSE /\ loans' = [loans EXCEPT ![l].status = "approved"]
         /\ Done("final_approve_loan", "ok", l, NoKey)
         /\ UNCHANGED OnlyLoans

\* final_approve_loan(loan_id) by current_user
final_approve_loan(l, u) ==
    IF ~is_group_admin(u) \/ loans[l].status # "pre_approved" \/ loans[l].requested_by = u
    THEN Done("final_approve_loan", "flash", l, NoKey) /\ UNCHANGED dbvars
    ELSE /\ loans' = [loans EXCEPT ![l].status = "approved"]
         /\ Done("final_approve_loan", "ok", l, NoKey)
         /\ UNCHANGED OnlyLoans

FinalApprove(callers) == \E l \in LoanIds, u \in callers : final_approve_loan(l, u)

\* -------------------------------------------------------------- edit loan
NoForm == [amount |-> 0, rate |-> NoneVal, duration |-> 0, type |-> "none",
           remarks |-> FALSE]

HasPaidEmi_all(loan) == \A i \in 1..Len(loan.emis) : loan.emis[i].is_paid

\* "paid_emis_count > 0"
HasPaidEmi(loan) == \E i \in 1..Len(loan.emis) : loan.emis[i].is_paid

\* the field updates of edit_loan, and whether a financial term changed
EditedFields(loan, f) ==
    LET amount_changed == /\ loan.status \in {"pending", "pre_approved"}
                          /\ f.amount # 0
                          /\ f.amount # loan.amount
    IN  [loan EXCEPT
            !.amount = IF amount_changed THEN f.amount ELSE @,
            !.approved_amount =
                IF amount_changed /\ loan.status \in {"pre_approved", "approved"}
                THEN f.amount ELSE @,
            !.interest_rate = IF f.rate # NoneVal THEN f.rate ELSE @,
            !.loan_duration_months = IF f.duration # 0 THEN f.duration ELSE @,
            !.repayment_type = IF f.type # "none" THEN f.type ELSE @]

StatusAfterEdit_any_status(loan, l, financial_terms_changed) ==
    IF financial_terms_changed
          /\ get_approval_count(votes, l) < loan.required_approvals
    THEN "pending" ELSE loan.status

\* "UPDATE LOAN STATUS IF NEEDED": a pre-approved loan whose terms changed
\* goes back to pending when its approvals no longer reach the frozen bar
StatusAfterEdit(loan, l, financial_terms_changed) ==
    IF financial_terms_changed /\ loan.status = "pre_approved"
          /\ get_approval_count(votes, l) < loan.required_approvals
    THEN "pending" ELSE loan.status

\* edit_loan(loan_id) by current_user with the posted form
edit_loan(l, u, f) ==
    \E edited \in {EditedFields(loans[l], f)} :
    LET loan == loans[l]
        financial_terms_changed == edited # loan
        regenerate == financial_terms_changed
                      /\ loan.status \in {"pre_approved", "approved", "disbursed"}
        reset == [edited EXCEPT !.emis = <<>>, !.total_interest = 0,
                                !.total_repayable = 0, !.emi_amount = RZero,
                                !.total_repaid = 0,
                                !.total_principal_repaid = RZero,
                                !.total_interest_repaid = RZero]
        regenerated == NumberRows(l, approve_loan_with_interest(reset, TRUE))
        afterTerms == IF regenerate THEN regenerated ELSE edited
        final == [afterTerms EXCEPT !.status =
                     StatusAfterEdit(afterTerms, l, financial_terms_changed)]
    IN  IF ~is_group_admin(u)
        THEN Done("edit_loan", "flash", l, NoKey) /\ UNCHANGED dbvars
        ELSE IF regenerate /\ HasPaidEmi(loan)
        THEN Done("edit_loan", "flash", l, NoKey) /\ UNCHANGED dbvars
        ELSE IF f.remarks
        THEN \* loan.admin_remarks is not an attribute of LoanRequest: the handler
             \* raises after the regeneration has committed, before the rest
             /\ Done("edit_loan", "error", l, NoKey)
             /\ loans' = IF regenerate THEN [loans EXCEPT ![l] = regenerated] ELSE loans
             /\ UNCHANGED OnlyLoans
        ELSE /\ Done("edit_loan", "ok", l, NoKey)
             /\ loans' = [loans EXCEPT ![l] = final]
             /\ UNCHANGED OnlyLoans

EditForms ==
    {[NoForm EXCEPT !.amount = 6000], [NoForm EXCEPT !.rate = 20],
     [NoForm EXCEPT !.type = "emi", !.duration = 2],
     [NoForm EXCEPT !.rate = 20, !.remarks = TRUE]}

EditLoan(callers, forms) ==
    \E l \in LoanIds, u \in callers, f \in forms : edit_loan(l, u, f)

\* ------------------------------------------------------------ disbursement
create_contribution_snapshot_all(l, borrower_id) ==
    LET ledgers == {u \in DOMAIN memberLedger : /\ memberLedger[u].id # 0
                                  /\ memberLedger[u].principal_contributed > 0}
        RECURSIVE Pool(_)
        Pool(S) == IF S = {} THEN 0
                   ELSE LET u == CHOOSE v \in S : TRUE
                        IN  memberLedger[u].principal_contributed + Pool(S \ {u})
        total_eligible_pool == Pool(ledgers)
    IN  {[loan_id |-> l, user_id |-> u, order |-> memberLedger[u].id,
          contribution_amount |-> memberLedger[u].principal_contributed,
          contribution_percentage |->
              Rat(memberLedger[u].principal_contributed * 100, total_eligible_pool),
          total_eligible_pool |-> total_eligible_pool] : u \in ledgers}

\* create_contribution_snapshot(loan_id, borrower_id, wallet_id)
create_contribution_snapshot(l, borrower_id) ==
    LET ledgers == {u \in DOMAIN memberLedger : /\ memberLedger[u].id # 0
                                  /\ u # borrower_id
                                  /\ memberLedger[u].principal_contributed > 0}
        RECURSIVE Pool(_)
        Pool(S) == IF S = {} THEN 0
                   ELSE LET u == CHOOSE v \in S : TRUE
                        IN  memberLedger[u].principal_contributed + Pool(S \ {u})
        total_eligible_pool == Pool(ledgers)
    IN  {[loan_id |-> l, user_id |-> u, order |-> memberLedger[u].id,
          contribution_amount |-> memberLedger[u].principal_contributed,
          contribution_percentage |->
              Rat(memberLedger[u].principal_contributed * 100, total_eligible_pool),
          total_eligible_pool |-> total_eligible_pool] : u \in ledgers}

disburse_amount(loan) == IF loan.approved_amount # 0 THEN loan.approved_amount ELSE loan.amount

can_disburse_any_status(u, l) ==
    /\ is_group_admin(u)
    /\ wallet.balance >= disburse_amount(loans[l])

\* can_disburse(user_id, loan_id)
can_disburse(u, l) ==
    /\ loans[l].status = "approved"
    /\ is_group_admin(u)
    /\ wallet.balance >= disburse_amount(loans[l])

\* a disbursement that takes the wallet's funds for granted
DisburseResult_unfunded(l, u, key) ==
    IF loans[l].status # "approved" \/ ~is_group_admin(u) THEN "WalletError"
    ELSE IF key # NoKey /\ check_idempotency(key) THEN "DuplicateTransactionError"
    ELSE "ok"

DisburseResult(l, u, key) ==
    IF ~can_disburse(u, l) THEN "WalletError"
    ELSE IF key # NoKey /\ check_idempotency(key) THEN "DuplicateTransactionError"
    ELSE IF wallet.balance < disburse_amount(loans[l]) THEN "InsufficientBalanceError"
    ELSE "ok"

\* disburse_loan(loan_id, admin_user_id, idempotency_key)
disburse_loan(l, u, key) ==
    LET res == DisburseResult(l, u, key)
        loan == loans[l]
        k == IF key = NoKey THEN generate_idempotency_key ELSE key
        amt == disburse_amount(loan)
        new_balance == wallet.balance - amt
    IN  /\ Done("disburse", res, l, key)
        /\ IF res = "ok"
           THEN /\ snapshots' = snapshots \cup create_contribution_snapshot(l, loan.requested_by)
                /\ ledger' = Append(ledger,
                       WalletTransaction("loan_disbursement", -amt, new_balance,
                                         "loan", l, u, loan.requested_by, k))
                /\ loans' = [loans EXCEPT ![l].status = "disbursed"]
                /\ wallet' = [wallet EXCEPT !.balance = new_balance,
                                            !.total_disbursed = @ + amt,
                                            !.is_dirty = FALSE]
                /\ UNCHANGED <<group, members, memberLedger, votes, repayments,
                               distributions>>
           ELSE UNCHANGED dbvars

\* the route passes no key: disburse_loan generates a fresh one
Disburse(callers) == \E l \in LoanIds, u \in callers : disburse_loan(l, u, NoKey)

\* -------------------------------------------------------------- repayments
\* can_repay(user_id, loan_id)
can_repay(u, l) ==
    /\ loans[l].status = "disbursed"
    /\ loans[l].requested_by = u
    /\ ~is_fully_repaid(loans[l])

SubmitResult(l, u, amount) ==
    IF amount <= 0 THEN "InvalidAmountError"
    ELSE IF ~can_repay(u, l) THEN "WalletError"
    ELSE "ok"

\* submit_repayment(loan_id, user_id, amount, description, emi_schedule_id)
submit_repayment(l, u, amount, emi_schedule_id) ==
    \E res \in {SubmitResult(l, u, amount)} :
    LET loan == loans[l]
        remaining == get_remaining_amount(loan)
        actual_amount == Min(amount, remaining)
        split == loan.total_repayable # 0 /\ loan.total_interest > 0
        interest_component ==
            IF split THEN Rat(actual_amount * loan.total_interest, loan.total_repayable)
            ELSE RZero
        principal_component == RSub(RInt(actual_amount), interest_component)
    IN  IF res = "ok"
        THEN /\ Len(repayments) < MaxRepayments
             /\ repayments' = Append(repayments,
                    [loan_id |-> l, paid_by |-> u, amount |-> actual_amount,
                     principal_component |-> principal_component,
                     interest_component |-> interest_component,
                     emi_schedule_id |-> emi_schedule_id, status |-> "pending"])
             /\ Return("submit_repayment", "ok", Len(repayments) + 1, NoKey)
             /\ binary64' = Submit64(binary64, loan, actual_amount)
             /\ UNCHANGED <<group, members, wallet, ledger, memberLedger, loans,
                            votes, snapshots, distributions>>
        ELSE Done("submit_repayment", res, l, NoKey) /\ UNCHANGED dbvars

\* the installments the repayment form can name: none, or a row of the loan
EmiChoices(l) == {0} \cup {loans[l].emis[i].id : i \in 1..Len(loans[l].emis)}

SubmitRepayment(callers, amounts) ==
    \E l \in LoanIds, u \in callers, amount \in amounts :
        \E e \in EmiChoices(l) : submit_repayment(l, u, amount, e)

can_approve_repayment_any_status(u, r) == is_group_admin(u)

\* can_approve_repayment(user_id, repayment_id)
can_approve_repayment(u, r) ==
    /\ repayments[r].status = "pending"
    /\ is_group_admin(u)

\* the snapshot rows of a loan in row order
RECURSIVE SnapshotSeq(_)
SnapshotSeq(S) ==
    IF S = {} THEN <<>>
    ELSE LET s == CHOOSE x \in S : \A y \in S : x.order <= y.order
         IN  <<s>> \o SnapshotSeq(S \ {s})

NextKey(txns) == -(Cardinality({i \in 1..Len(txns) : txns[i].idempotency_key < 0}) + 1)

InterestEntryAmount_share(interest_share) == interest_share[1] \div interest_share[2]

\* "amount=0,  # No wallet balance change (already in repayment)"
InterestEntryAmount(interest_share) == 0

InterestShare_unscaled(contribution_percentage, interest_amount) ==
    RMul(contribution_percentage, interest_amount)

\* "interest_share = (snapshot.contribution_percentage / 100) * interest_amount"
InterestShare(contribution_percentage, interest_amount) ==
    RMul(RMul(contribution_percentage, <<1, 100>>), interest_amount)

\* distribute_interest_to_members(loan, repayment, wallet, interest_amount, admin)
\* acc = [ledger, memberLedger, distributions]
RECURSIVE distribute_interest_to_members(_, _, _, _, _, _)
distribute_interest_to_members(snaps, l, r, interest_amount, admin, acc) ==
    IF snaps = <<>> THEN acc
    ELSE LET snapshot == Head(snaps)
             interest_share ==
                 InterestShare(snapshot.contribution_percentage, interest_amount)
             ml == get_or_create_member_ledger(acc.memberLedger, snapshot.user_id)
             distribution ==
                 [loan_id |-> l, repayment_id |-> r, beneficiary_id |-> snapshot.user_id,
                  contribution_amount |-> snapshot.contribution_amount,
                  contribution_percentage |-> snapshot.contribution_percentage,
                  interest_earned |-> interest_share]
             int_txn == WalletTransaction("interest_distribution",
                            InterestEntryAmount(interest_share), NoneVal,
                            "interest_distribution", Len(acc.distributions) + 1,
                            admin, snapshot.user_id, NextKey(acc.ledger))
             next == [ledger |-> Append(acc.ledger, int_txn),
                      memberLedger |-> [ml EXCEPT
                          ![snapshot.user_id].interest_earned = RAdd(@, interest_share),
                          ![snapshot.user_id].total_balance = RAdd(@, interest_share)],
                      distributions |-> Append(acc.distributions, distribution)]
         IN  distribute_interest_to_members(Tail(snaps), l, r, interest_amount, admin,
                 IF RPos(interest_share) THEN next ELSE acc)

\* EMISchedule.query.get(id) and the paid marking
MarkPaid(ls, emi_id, amount) ==
    [k \in 1..Len(ls) |->
        [ls[k] EXCEPT !.emis = [i \in 1..Len(@) |->
            IF @[i].id = emi_id /\ emi_id # 0
            THEN [@[i] EXCEPT !.is_paid = TRUE, !.paid_amount = amount]
            ELSE @[i]]]]

StatusAfterRepayment_strict(loan, total_repaid) ==
    LET target == IF loan.total_repayable # 0 THEN loan.total_repayable
                  ELSE loan.approved_amount
    IN  IF total_repaid > target THEN "completed" ELSE loan.status

\* "Check if loan is fully repaid"
StatusAfterRepayment(loan, total_repaid) ==
    LET target == IF loan.total_repayable # 0 THEN loan.total_repayable
                  ELSE loan.approved_amount
    IN  IF total_repaid >= target THEN "completed" ELSE loan.status

\* approve_repayment(repayment_id, admin_user_id)
approve_repayment(r, admin) ==
    IF ~can_approve_repayment(admin, r)
    THEN Done("approve_repayment", "WalletError", r, NoKey) /\ UNCHANGED dbvars
    ELSE
    LET repayment == repayments[r]
        l == repayment.loan_id
        loan == loans[l]
        new_balance == wallet.balance + repayment.amount
        transaction == WalletTransaction("repayment", repayment.amount, new_balance,
                           "repayment", r, admin, "", generate_idempotency_key)
        total_repaid == loan.total_repaid + repayment.amount
        acc0 == [ledger |-> Append(ledger, transaction), memberLedger |-> memberLedger,
                 distributions |-> distributions]
        acc == IF RPos(repayment.interest_component)
               THEN distribute_interest_to_members(
                        SnapshotSeq({s \in snapshots : s.loan_id = l}), l, r,
                        repayment.interest_component, admin, acc0)
               ELSE acc0
        paidLoan == [loan EXCEPT
            !.total_principal_repaid = RAdd(@, repayment.principal_component),
            !.total_interest_repaid = RAdd(@, repayment.interest_component),
            !.total_repaid = total_repaid,
            !.status = StatusAfterRepayment(loan, total_repaid)]
    IN  /\ repayments' = [repayments EXCEPT ![r].status = "approved"]
        /\ ledger' = acc.ledger
        /\ memberLedger' = acc.memberLedger
        /\ distributions' = acc.distributions
        /\ loans' = MarkPaid([loans EXCEPT ![l] = paidLoan],
                             repayment.emi_schedule_id, repayment.amount)
        /\ wallet' = [wallet EXCEPT
               !.balance = new_balance,
               !.total_interest_earned = RAdd(@, repayment.interest_component),
               !.is_dirty = FALSE]
        /\ Return("approve_repayment", "ok", r, NoKey)
        /\ binary64' =
               IF binary64.tracked /\ binary64.interest_component[r] # FZero
               THEN [binary64 EXCEPT !.memberLedger =
                        Distribute64(SnapshotSeq({s \in snapshots : s.loan_id = l}),
                                     binary64.interest_component[r], @)]
               ELSE binary64
        /\ UNCHANGED <<group, members, votes, snapshots>>

ApproveRepayment(callers) == \E r \in RepaymentIds, u \in callers : approve_repayment(r, u)

reject_repayment_reversing(r, u) ==
    IF ~can_approve_repayment(u, r)
    THEN Done("reject_repayment", "flash", r, NoKey) /\ UNCHANGED dbvars
    ELSE /\ repayments' = [repayments EXCEPT ![r].status = "rejected"]
         /\ loans' = [loans EXCEPT ![repayments[r].loan_id].total_repaid =
                                      @ - repayments[r].amount]
         /\ Done("reject_repayment", "ok", r, NoKey)
         /\ UNCHANGED <<group, members, wallet, ledger, memberLedger, votes,
                        snapshots, distributions>>

\* reject_repayment(repayment_id) by current_user
reject_repayment(r, u) ==
    IF ~can_approve_repayment(u, r)
    THEN Done("reject_repayment", "flash", r, NoKey) /\ UNCHANGED dbvars
    ELSE /\ repayments' = [repayments EXCEPT ![r].status = "rejected"]
         /\ Done("reject_repayment", "ok", r, NoKey)
         /\ UNCHANGED <<group, members, wallet, ledger, memberLedger, loans, votes,
                        snapshots, distributions>>

RejectRepayment(callers) == \E r \in RepaymentIds, u \in callers : reject_repayment(r, u)

\* close_loan(loan_id) by current_user
close_loan(l, u) ==
    IF ~is_group_admin(u) \/ loans[l].status # "disbursed" \/ ~is_fully_repaid(loans[l])
    THEN Done("close_loan", "flash", l, NoKey) /\ UNCHANGED dbvars
    ELSE /\ loans' = [loans EXCEPT ![l].status = "completed"]
         /\ Done("close_loan", "ok", l, NoKey)
         /\ UNCHANGED OnlyLoans

CloseLoan(callers) == \E l \in LoanIds, u \in callers : close_loan(l, u)

\* ------------------------------------------------------------------ Next
AllKeys == ClientKeys \cup {NoKey}

\* every operation, by every user, on a freshly created group
Next ==
    \/ Contribute(Users, ContribAmounts, AllKeys)
    \/ Recalculate
    \/ AddMember(Users, Users)
    \/ LeaveGroup(Users)
    \/ RemoveMember(Users, Users)
    \/ TransferAdmin(Users, Users)
    \/ CreateLoan(Users, LoanAmounts, MaxLoans)
    \/ CastVote(Users)
    \/ FinalApprove(Users)
    \/ EditLoan(Users, EditForms)
    \/ Disburse(Users)
    \/ SubmitRepayment(Users, RepayAmounts)
    \/ ApproveRepayment(Users)
    \/ RejectRepayment(Users)
    \/ CloseLoan(Users)

Spec == Init /\ [][Next]_vars

\* ------------------------------------------------- the group once it is set up
\* The state after create_group by A and add_member of B and of C.
InitGroup ==
    /\ group \in GroupSettings
    /\ members = [u \in Users |->
                    [active |-> TRUE, role |-> IF u = Creator THEN "admin" ELSE "member",
                     former |-> FALSE]]
    /\ wallet = NewWallet
    /\ ledger = <<>>
    /\ memberLedger = [u \in Users |-> NoLedger]
    /\ loans = <<>>
    /\ votes = {}
    /\ snapshots = {}
    /\ repayments = <<>>
    /\ distributions = <<>>
    /\ lastOp = Op("add_member", "ok", 0, NoKey)
    /\ inflight = [s \in Sessions |-> Idle]
    /\ binary64 = Untracked

\* The money operations on one loan with membership held fixed: B and C
\* contribute and borrow, every member votes, A administers.
Admin == {"A"}
Savers == {"B", "C"}
LedgerForms == {[NoForm EXCEPT !.amount = 6000], [NoForm EXCEPT !.rate = 20]}
NextLedger ==
    \/ Contribute(Savers, {0, 5000}, AllKeys)
    \/ Recalculate
    \/ CreateLoan(Savers, LoanAmounts, 1)
    \/ CastVote(Users)
    \/ FinalApprove(Admin)
    \/ EditLoan(Admin, LedgerForms)
    \/ Disburse(Users)
    \/ SubmitRepayment(Savers, RepayAmounts)
    \/ ApproveRepayment(Admin)
    \/ RejectRepayment(Admin)
    \/ CloseLoan(Admin)

SpecLedger == InitGroup /\ [][NextLedger]_vars
\* One loan from request to completion while members leave and the
\* administrator changes; C funds the wallet once.
StatusForms == {[NoForm EXCEPT !.amount = 6000],
                [NoForm EXCEPT !.type = "emi", !.duration = 2]}
NextStatus ==
    \/ (wallet.balance = 0 /\ Contribute({"C"}, {5000}, {NoKey}))
    \/ LeaveGroup(Users)
    \/ TransferAdmin(Users, Users)
    \/ CreateLoan(Users, {3000}, 1)
    \/ CastVote(Users)
    \/ FinalApprove(Users)
    \/ EditLoan(Users, StatusForms)
    \/ Disburse(Users)
    \/ (repayments = <<>> /\ SubmitRepayment(Users, {5000}))
    \/ ApproveRepayment(Users)
    \/ RejectRepayment(Users)
    \/ CloseLoan(Users)

SpecStatus == InitGroup /\ [][NextStatus]_vars

\* Loan requests while the fund is filled once and members leave: up to
\* MaxLoans requests, of nothing, of less and of more than the fund holds.
RequestAmounts == {0, 3000, 6000}

NextRequest ==
    \/ (wallet.balance = 0 /\ Contribute({"C"}, {5000}, {NoKey}))
    \/ LeaveGroup(Users)
    \/ CreateLoan(Users, RequestAmounts, MaxLoans)
    \/ CastVote(Users)

SpecRequest == InitGroup /\ [][NextRequest]_vars

\* The life of one loan's contribution snapshot: both savers pay in before and
\* after the disbursement of B's loan, members leave, and B's repayments are
\* approved or rejected.
NextSnapshot ==
    \/ Contribute(Savers, {5000}, {NoKey})
    \/ LeaveGroup(Savers)
    \/ CreateLoan({"B"}, {3000}, 1)
    \/ CastVote(Users)
    \/ FinalApprove(Admin)
    \/ Disburse(Admin)
    \/ SubmitRepayment({"B"}, {1000, 5000})
    \/ ApproveRepayment(Admin)
    \/ RejectRepayment(Admin)

SpecSnapshot == InitGroup /\ [][NextSnapshot]_vars

\* One saver and one borrower with the Float columns of the member ledgers
\* followed in binary64: C pays in before and after B's loan is disbursed and
\* B repays it in parts.
InitBinary64 ==
    /\ group \in GroupSettings
    /\ members = [u \in Users |->
                    [active |-> TRUE, role |-> IF u = Creator THEN "admin" ELSE "member",
                     former |-> FALSE]]
    /\ wallet = NewWallet
    /\ ledger = <<>>
    /\ memberLedger = [u \in Users |-> NoLedger]
    /\ loans = <<>>
    /\ votes = {}
    /\ snapshots = {}
    /\ repayments = <<>>
    /\ distributions = <<>>
    /\ lastOp = Op("add_member", "ok", 0, NoKey)
    /\ inflight = [s \in Sessions |-> Idle]
    /\ binary64 = Tracked

NextBinary64 ==
    \/ Contribute({"C"}, {5000}, {NoKey})
    \/ CreateLoan({"B"}, {3000}, 1)
    \/ CastVote(Users)
    \/ FinalApprove(Admin)
    \/ Disburse(Admin)
    \/ SubmitRepayment({"B"}, {1000, 5000})
    \/ ApproveRepayment(Admin)

SpecBinary64 == InitBinary64 /\ [][NextBinary64]_vars

\* ------------------------------------------------- two requests at a time
\* SQLite takes its write lock at a request's first INSERT or UPDATE and
\* holds it to the commit; the SELECTs before that hold nothing.  A request
\* is therefore two steps: its reads and checks, then its writes, computed
\* from the rows as it read them.

\* contribute_to_wallet up to new_balance = wallet.balance + amount
read_contribute(s, u, amount, key) ==
    LET res == ContributeResult(u, amount, key)
    IN  /\ inflight[s].pc = "idle"
        /\ IF res = "ok"
           THEN /\ Len(OfType(ledger, "contribution"))
                      + Cardinality({t \in Sessions : inflight[t].pc = "contribute"})
                          < MaxContribs
                /\ inflight' = [inflight EXCEPT ![s] =
                       [pc |-> "contribute", user |-> u, amount |-> amount,
                        key |-> key, loan |-> 0, wallet |-> wallet]]
                /\ UNCHANGED <<dbvars, lastOp, binary64>>
           ELSE /\ lastOp' = Op("contribute", res, 0, key)
                /\ UNCHANGED <<dbvars, inflight, binary64>>

\* contribute_to_wallet from db.session.add(transaction) to the commit
write_contribute(s) ==
    LET req == inflight[s]
        u == req.user
        k == IF req.key = NoKey THEN generate_idempotency_key ELSE req.key
        new_balance == req.wallet.balance + req.amount
        ml == get_or_create_member_ledger(memberLedger, u)
    IN  /\ req.pc = "contribute"
        /\ inflight' = [inflight EXCEPT ![s] = Idle]
        /\ IF check_idempotency(k)
           THEN \* UNIQUE(idempotency_key): IntegrityError, caught as Exception
                /\ lastOp' = Op("contribute", "WalletError", 0, req.key)
                /\ UNCHANGED <<dbvars, binary64>>
           ELSE /\ lastOp' = Op("contribute", "ok", 0, req.key)
                /\ binary64' = Contribute64(binary64, u, req.amount)
                /\ ledger' = Append(ledger,
                       WalletTransaction("contribution", req.amount, new_balance,
                                         "contribution",
                                         Len(OfType(ledger, "contribution")) + 1,
                                         u, "", k))
                /\ memberLedger' = [ml EXCEPT
                       ![u].principal_contributed = @ + req.amount,
                       ![u].total_balance = RAdd(@, RInt(req.amount))]
                /\ wallet' = [wallet EXCEPT
                       !.balance = new_balance,
                       !.total_contributed = req.wallet.total_contributed + req.amount,
                       !.is_dirty = FALSE]
                /\ UNCHANGED <<group, members, loans, votes, snapshots,
                               repayments, distributions>>

\* disburse_loan up to the balance check
read_disburse(s, l, u) ==
    LET res == DisburseResult(l, u, NoKey)
    IN  /\ inflight[s].pc = "idle"
        /\ IF res = "ok"
           THEN /\ inflight' = [inflight EXCEPT ![s] =
                       [pc |-> "disburse", user |-> u, amount |-> disburse_amount(loans[l]),
                        key |-> NoKey, loan |-> l, wallet |-> wallet]]
                /\ UNCHANGED <<dbvars, lastOp, binary64>>
           ELSE /\ lastOp' = Op("disburse", res, l, NoKey)
                /\ UNCHANGED <<dbvars, inflight, binary64>>

\* disburse_loan from create_contribution_snapshot to the commit
write_disburse(s) ==
    LET req == inflight[s]
        l == req.loan
        rows == create_contribution_snapshot(l, loans[l].requested_by)
        new_balance == req.wallet.balance - req.amount
    IN  /\ req.pc = "disburse"
        /\ inflight' = [inflight EXCEPT ![s] = Idle]
        /\ UNCHANGED binary64
        /\ IF \E x \in rows, y \in snapshots : x.loan_id = y.loan_id /\ x.user_id = y.user_id
           THEN \* unique_loan_contribution_snapshot: IntegrityError
                /\ lastOp' = Op("disburse", "WalletError", l, NoKey)
                /\ UNCHANGED dbvars
           ELSE /\ lastOp' = Op("disburse", "ok", l, NoKey)
                /\ snapshots' = snapshots \cup rows
                /\ ledger' = Append(ledger,
                       WalletTransaction("loan_disbursement", -req.amount, new_balance,
                                         "loan", l, req.user, loans[l].requested_by,
                                         generate_idempotency_key))
                /\ loans' = [loans EXCEPT ![l].status = "disbursed"]
                /\ wallet' = [wallet EXCEPT
                       !.balance = new_balance,
                       !.total_disbursed = req.wallet.total_disbursed + req.amount,
                       !.is_dirty = FALSE]
                /\ UNCHANGED <<group, members, memberLedger, votes, repayments,
                               distributions>>

ReadContribute(callers, amounts, keys) ==
    \E s \in Sessions, u \in callers, amount \in amounts, key \in keys :
        read_contribute(s, u, amount, key)
WriteContribute == \E s \in Sessions : write_contribute(s)
ReadDisburse(callers) ==
    \E s \in Sessions, l \in LoanIds, u \in callers : read_disburse(s, l, u)
WriteDisburse == \E s \in Sessions : write_disburse(s)

\* Two contribute requests at a time, and recalculate.
NextRaceContribute ==
    \/ ReadContribute(Savers, {0, 5000}, AllKeys)
    \/ WriteContribute
    \/ Recalculate

SpecRaceContribute == InitGroup /\ [][NextRaceContribute]_vars

\* Two disburse requests at a time; B and C fund the wallet and borrow, and
\* everything but the disbursements runs alone.
NextRaceDisburse ==
    \/ Contribute(Savers, {5000}, {NoKey})
    \/ CreateLoan(Savers, {3000}, MaxLoans)
    \/ CastVote(Users)
    \/ FinalApprove(Admin)
    \/ ReadDisburse(Admin)
    \/ WriteDisburse

SpecRaceDisburse == InitGroup /\ [][NextRaceDisburse]_vars

\* The terms of one loan: A moves B's loan to installments or changes its
\* rate at any stage, and B pays an installment of the disbursed loan.
TermForms == {[NoForm EXCEPT !.type = "emi", !.duration = 2],
              [NoForm EXCEPT !.rate = 12]}
NextTerms ==
    \/ (wallet.balance = 0 /\ Contribute({"C"}, {5000}, {NoKey}))
    \/ CreateLoan({"B"}, {3000}, 1)
    \/ CastVote(Users)
    \/ FinalApprove(Admin)
    \/ EditLoan(Admin, TermForms)
    \/ Disburse(Admin)
    \/ (repayments = <<>> /\ SubmitRepayment({"B"}, {1000}))
    \/ ApproveRepayment(Admin)

SpecTerms == InitGroup /\ [][NextTerms]_vars

\* The worked example of the group of three: the members pay 4000 and 6000
\* into the wallet, B borrows 3000 from the 10000, A and C vote, A approves
\* and disburses, and B repays in one payment or in parts.
NextScenario ==
    \/ (loans = <<>> /\ Contribute(Users, {4000, 6000}, {NoKey}))
    \/ (wallet.balance = 10000 /\ CreateLoan({"B"}, {3000}, 1))
    \/ CastVote({"A", "C"})
    \/ FinalApprove(Admin)
    \/ Disburse(Admin)
    \/ SubmitRepayment({"B"}, {1000, 3300})
    \/ ApproveRepayment(Admin)

SpecScenario == InitGroup /\ [][NextScenario]_vars

\* The audit of a wallet whose disbursements race: B alone funds the wallet
\* and borrows, so a second disbursement of the loan is not stopped by the
\* snapshot rows of the first, and recalculate runs at any time.
NextRecalculate ==
    \/ Contribute({"B"}, {3000}, {NoKey})
    \/ CreateLoan({"B"}, {3000}, 1)
    \/ CastVote(Users)
    \/ FinalApprove(Admin)
    \/ ReadDisburse(Admin)
    \/ WriteDisburse
    \/ Recalculate

SpecRecalculate == InitGroup /\ [][NextRecalculate]_vars

\* Loans under every group setting of the three interest methods: a group is
\* created with a default rate, duration and repayment type and with the flat
\* or the reducing-balance method, C funds it, B asks for a round or an odd
\* amount, and the votes that reach the majority compute the loan's terms.
InitAmortization ==
    /\ group \in [default_interest_rate : {8, 10},
                  default_loan_duration_months : {2, 3},
                  default_repayment_type : {"bullet", "emi"},
                  use_flat_rate : BOOLEAN]
    /\ members = [u \in Users |->
                    [active |-> TRUE, role |-> IF u = Creator THEN "admin" ELSE "member",
                     former |-> FALSE]]
    /\ wallet = NewWallet
    /\ ledger = <<>>
    /\ memberLedger = [u \in Users |-> NoLedger]
    /\ loans = <<>>
    /\ votes = {}
    /\ snapshots = {}
    /\ repayments = <<>>
    /\ distributions = <<>>
    /\ lastOp = Op("add_member", "ok", 0, NoKey)
    /\ inflight = [s \in Sessions |-> Idle]
    /\ binary64 = Untracked

NextAmortization ==
    \/ (wallet.balance = 0 /\ Contribute({"C"}, {5000}, {NoKey}))
    \/ CreateLoan({"B"}, {3000, 3025}, 1)
    \/ CastVote(Users)
    \/ FinalApprove(Admin)

SpecAmortization == InitAmortization /\ [][NextAmortization]_vars

\* Membership from the group's creation on: the creator adds members, members
\* leave or are removed and the administrator changes, while the wallet is
\* funded once and one loan is requested and voted on.
NextMembership ==
    \/ AddMember(Users, Users)
    \/ LeaveGroup(Users)
    \/ RemoveMember(Users, Users)
    \/ TransferAdmin(Users, Users)
    \/ (wallet.balance = 0 /\ Contribute(Users, {5000}, {NoKey}))
    \/ CreateLoan(Users, {3000}, 1)
    \/ CastVote(Users)
    \/ FinalApprove(Users)

SpecMembership == Init /\ [][NextMembership]_vars

\* A member who joins while a vote is open: the group of three with a fourth
\* user D, whom the administrator can add at any time; C funds the wallet,
\* one loan is requested, and every user votes.
InitLateJoiner ==
    /\ group \in GroupSettings
    /\ members = [u \in Users \cup {"D"} |->
                    [active |-> u \in Users,
                     role |-> IF u = Creator THEN "admin" ELSE "member",
                     former |-> FALSE]]
    /\ wallet = NewWallet
    /\ ledger = <<>>
    /\ memberLedger = [u \in Users \cup {"D"} |-> NoLedger]
    /\ loans = <<>>
    /\ votes = {}
    /\ snapshots = {}
    /\ repayments = <<>>
    /\ distributions = <<>>
    /\ lastOp = Op("add_member", "ok", 0, NoKey)
    /\ inflight = [s \in Sessions |-> Idle]
    /\ binary64 = Untracked

NextLateJoiner ==
    \/ (wallet.balance = 0 /\ Contribute({"C"}, {5000}, {NoKey}))
    \/ AddMember(Admin, {"D"})
    \/ LeaveGroup(Users \cup {"D"})
    \/ CreateLoan(Users \cup {"D"}, {3000}, 1)
    \/ CastVote(Users \cup {"D"})
    \/ FinalApprove(Admin)

SpecLateJoiner == InitLateJoiner /\ [][NextLateJoiner]_vars

\* =================================================================== claims
\* C1: after any sequence of operations, each one atomic and either
\* succeeding or rejected, the cached wallet balance equals the sum of the
\* amounts of the ledger entries that are not reversed.
C1_BalanceMatchesLedger == wallet.balance = LedgerSum

C1_Witness ==
    /\ lastOp = Op("recalculate", "ok", 0, NoKey)
    /\ Len(OfType(ledger, "contribution")) = 2
    /\ Len(OfType(ledger, "loan_disbursement")) = 1
    /\ Len(OfType(ledger, "repayment")) = 1
    /\ Len(OfType(ledger, "interest_distribution")) >= 1

\* C2: in every reachable state a loan's total_repaid is at most its
\* total_repayable, whatever the order of submissions and approvals.
C2_RepaidWithinRepayable ==
    \A l \in LoanIds :
        loans[l].total_repayable # 0 => loans[l].total_repaid <= loans[l].total_repayable

\* C3: rejected and completed are terminal: no operation changes the status
\* of a loan that is rejected or completed.
C3_TerminalStatuses ==
    [][\A l \in LoanIds :
          loans[l].status \in {"rejected", "completed"}
              => loans'[l].status = loans[l].status]_vars

\* a repayment was approved on a loan that was already completed
C3_Witness ==
    \E l \in LoanIds :
        /\ loans[l].status = "completed"
        /\ loans[l].total_repaid > loans[l].total_repayable
        /\ lastOp.op = "approve_repayment" /\ lastOp.res = "ok"

\* C4: every change of a loan's status is one of the edges
\* pending->pre_approved, pending->approved, pending->rejected,
\* pre_approved->approved, pre_approved->rejected, pre_approved->pending,
\* approved->disbursed, disbursed->completed.
StatusEdges ==
    {<<"pending", "pre_approved">>, <<"pending", "approved">>,
     <<"pending", "rejected">>, <<"pre_approved", "approved">>,
     <<"pre_approved", "rejected">>, <<"pre_approved", "pending">>,
     <<"approved", "disbursed">>, <<"disbursed", "completed">>}

C4_OnlyListedEdges ==
    [][\A l \in LoanIds :
          loans'[l].status # loans[l].status
              => <<loans[l].status, loans'[l].status>> \in StatusEdges]_vars

\* an edit sent a pre-approved loan back to pending
C4_Witness ==
    \E l \in LoanIds :
        /\ lastOp = Op("edit_loan", "ok", l, NoKey)
        /\ loans[l].status = "pending"
        /\ loans[l].total_repayable # 0
        /\ get_approval_count(votes, l) < loans[l].required_approvals

\* C5: a second contribute call with an idempotency key that a ledger entry
\* already carries is rejected as DuplicateTransaction and changes nothing,
\* so the ledger holds exactly one entry with that key.
C5_DuplicateKeyRejected ==
    [][/\ \A k \in ClientKeys :
              Cardinality({i \in 1..Len(ledger') : ledger'[i].idempotency_key = k}) <= 1
       /\ (/\ lastOp'.op = "contribute"
           /\ lastOp'.key # NoKey
           /\ \E i \in 1..Len(ledger) : ledger[i].idempotency_key = lastOp'.key
           /\ lastOp'.res # "InvalidAmountError")
              => (lastOp'.res = "DuplicateTransactionError" /\ UNCHANGED dbvars)]_vars

C5_Witness ==
    /\ lastOp.op = "contribute"
    /\ lastOp.res = "DuplicateTransactionError"
    /\ Cardinality({i \in 1..Len(ledger) : ledger[i].idempotency_key = lastOp.key}) = 1

\* C6: when two contribute calls with the same idempotency key interleave,
\* both looking the key up before either inserts, one ledger entry results,
\* the wallet and the member ledger are credited once, and the call that
\* loses is rejected as DuplicateTransaction.
C6_InterleavedDuplicateRejected ==
    [][/\ \A k \in ClientKeys :
              Cardinality({i \in 1..Len(ledger') : ledger'[i].idempotency_key = k}) <= 1
       /\ \A s \in Sessions :
              (/\ inflight[s].pc = "contribute"
               /\ inflight'[s].pc = "idle"
               /\ inflight[s].key # NoKey
               /\ \E i \in 1..Len(ledger) : ledger[i].idempotency_key = inflight[s].key)
                  => (lastOp'.res = "DuplicateTransactionError" /\ UNCHANGED dbvars)]_vars

\* C7: when two disburse calls for two different approved loans interleave
\* and the balance covers one of them, at most one passes the balance check:
\* the balance never goes negative and the cache equals the ledger sum.
DisbursementsOf(l) ==
    {i \in 1..Len(ledger) : /\ ledger[i].transaction_type = "loan_disbursement"
                            /\ ledger[i].reference_id = l}

C7_NoStaleBalanceCheck ==
    [][\A s \in Sessions :
          (/\ inflight[s].pc = "disburse"
           /\ inflight'[s].pc = "idle"
           /\ loans[inflight[s].loan].status = "approved"
           /\ wallet.balance = LedgerSum
           /\ wallet.balance < inflight[s].amount)
              => (/\ lastOp'.res # "ok"
                  /\ UNCHANGED dbvars)]_vars

\* C8: called one after another, disburse leaves at most one
\* loan_disbursement entry per loan; a call on a loan that is already
\* disbursed is rejected and changes nothing.
C8_DisbursedOnce ==
    [][/\ \A l \in LoanIds :
              Cardinality({i \in 1..Len(ledger') :
                  /\ ledger'[i].transaction_type = "loan_disbursement"
                  /\ ledger'[i].reference_id = l}) <= 1
       /\ (/\ lastOp'.op = "disburse"
           /\ loans[lastOp'.id].status \notin {"approved"})
              => (lastOp'.res # "ok" /\ UNCHANGED dbvars)]_vars

\* the administrator repeated the call on a disbursed loan
C8_Witness ==
    /\ lastOp.op = "disburse"
    /\ lastOp.res = "WalletError"
    /\ loans[lastOp.id].status = "disbursed"
    /\ is_group_admin("A")
    /\ wallet.balance >= disburse_amount(loans[lastOp.id])

\* C9: when two disburse calls for the same approved loan interleave, both
\* reading status approved before either commits, the loan is disbursed
\* once: one loan_disbursement entry, one debit.
C9_SameLoanDisbursedOnce ==
    \A l \in LoanIds : Cardinality(DisbursementsOf(l)) <= 1

\* C10: disbursing an approved loan whose amount exceeds the wallet balance
\* fails with the InsufficientBalance error kind and leaves the wallet, the
\* ledger, the snapshots and the loan unchanged.
C10_InsufficientBalanceKind ==
    \A l \in LoanIds, u \in Users :
        (/\ loans[l].status = "approved"
         /\ is_group_admin(u)
         /\ disburse_amount(loans[l]) > wallet.balance)
            => DisburseResult(l, u, NoKey) = "InsufficientBalanceError"

\* C11: a loan created with n active members gets total_eligible_voters = n - 1
\* and required_approvals = floor((n - 1) / 2) + 1; while the membership is
\* what it was at creation, a vote takes the loan out of pending by approval
\* only when the approvals have reached that bar (2 of 2 voters in a group of
\* three, 1 of 1 in a group of two).
C11_FrozenQuorum ==
    [][\A l \in 1..Len(loans') :
          LET n == get_active_member_count
          IN  /\ l \notin LoanIds =>
                    /\ loans'[l].total_eligible_voters = n - 1
                    /\ loans'[l].required_approvals = ((n - 1) \div 2) + 1
              /\ ( /\ l \in LoanIds
                   /\ loans[l].status = "pending"
                   /\ loans'[l].status \in {"pre_approved", "approved"}
                   /\ n = loans[l].total_eligible_voters + 1 )
                 => /\ get_approval_count(votes', l) >= ((n - 1) \div 2) + 1
                    /\ n = 3 => get_approval_count(votes', l) >= 2
                    /\ n = 2 => get_approval_count(votes', l) >= 1]_vars

C11_Witness ==
    \E l \in LoanIds :
        /\ lastOp = Op("cast_vote", "ok", l, NoKey)
        /\ get_active_member_count = 3
        /\ loans[l].total_eligible_voters = 2
        /\ loans[l].required_approvals = 2
        /\ loans[l].status \in {"pre_approved", "approved"}
        /\ get_approval_count(votes, l) = 2

\* C12: create_loan_request is refused and creates no loan whenever the
\* requester is the only active member (no eligible voter), or the amount
\* exceeds the wallet balance, or the requester already has a pending loan:
\* a step that adds a loan is a successful request made when none of the
\* three held, and a refused request changes nothing in the database.
C12_RequestRefused ==
    [][/\ \A u \in Users, amount \in RequestAmounts :
             ( \/ get_active_member_count - 1 < 1
               \/ amount > wallet.balance
               \/ \E l \in LoanIds : /\ loans[l].requested_by = u
                                     /\ loans[l].status = "pending" )
             => CreateLoanResult(u, amount) # "ok"
       /\ Len(loans') # Len(loans) =>
             LET new == loans'[Len(loans')]
             IN  /\ Len(loans') = Len(loans) + 1
                 /\ lastOp' = Op("create_loan_request", "ok", Len(loans'), NoKey)
                 /\ get_active_member_count - 1 >= 1
                 /\ new.amount <= wallet.balance
                 /\ ~\E l \in LoanIds : /\ loans[l].requested_by = new.requested_by
                                        /\ loans[l].status = "pending"
       /\ lastOp'.op = "create_loan_request" =>
             IF lastOp'.res = "ok"
             THEN Len(loans') = Len(loans) + 1
             ELSE UNCHANGED dbvars]_vars

\* the last member left in a funded group asks for a loan and is refused
C12_Witness ==
    /\ lastOp = Op("create_loan_request", "LoanError", 0, NoKey)
    /\ get_active_member_count = 1
    /\ wallet.balance = 5000
    /\ loans = <<>>

\* C13: total_eligible_voters and required_approvals of a loan are set when
\* the loan is created and no later step (a vote, a member leaving, a change
\* of admin, an edit, the disbursement, a repayment) changes either of them.
C13_QuorumFrozen ==
    [][\A l \in LoanIds :
          /\ loans'[l].total_eligible_voters = loans[l].total_eligible_voters
          /\ loans'[l].required_approvals = loans[l].required_approvals]_vars

\* a loan frozen with two voters, disbursed and being repaid, in a group that
\* has since shrunk to two members
C13_Witness ==
    \E l \in LoanIds :
        /\ loans[l].total_eligible_voters = 2
        /\ loans[l].required_approvals = 2
        /\ get_active_member_count = 2
        /\ loans[l].status = "disbursed"
        /\ repayments # <<>>

\* C14: after each vote recorded on a pending loan whose requester is still
\* an active member, with eff = min(total_eligible_voters, active members - 1)
\* and req = floor(eff / 2) + 1, the loan is pre_approved or approved if the
\* approvals have reached req, else rejected if the rejections have reached
\* req, and else still pending.
C14_VoteOutcome ==
    [][\A l \in LoanIds :
          ( /\ lastOp' = Op("cast_vote", "ok", l, NoKey)
            /\ votes' # votes
            /\ loans[l].status = "pending"
            /\ is_group_member(loans[l].requested_by) )
          => LET others == get_active_member_count - 1
                 eff == IF loans[l].total_eligible_voters < others
                        THEN loans[l].total_eligible_voters ELSE others
                 req == (eff \div 2) + 1
                 approvals == Cardinality({v \in votes' : v.loan_id = l /\ v.approved})
                 rejections == Cardinality({v \in votes' : v.loan_id = l /\ ~v.approved})
             IN  /\ approvals >= req =>
                        loans'[l].status \in {"pre_approved", "approved"}
                 /\ approvals < req /\ rejections >= req =>
                        loans'[l].status = "rejected"
                 /\ approvals < req /\ rejections < req =>
                        loans'[l].status = "pending"]_vars

\* one rejection settles a loan frozen at two required votes, after a voter left
C14_Witness ==
    \E l \in LoanIds :
        /\ lastOp = Op("cast_vote", "ok", l, NoKey)
        /\ is_group_member(loans[l].requested_by)
        /\ loans[l].required_approvals = 2
        /\ get_active_member_count = 2
        /\ get_rejection_count(votes, l) = 1
        /\ get_approval_count(votes, l) = 0
        /\ loans[l].status = "rejected"

\* C15: when a vote brings the approvals of a pending loan to the bar in
\* force, the loan goes directly to approved if and only if the requester is
\* at that moment the only active admin of the group; otherwise it becomes
\* pre_approved.
C15_DirectApproval ==
    [][\A l \in LoanIds :
          ( /\ lastOp' = Op("cast_vote", "ok", l, NoKey)
            /\ loans[l].status = "pending"
            /\ loans'[l].status \in {"pre_approved", "approved"} )
          => LET admins == {u \in Users : members[u].active /\ members[u].role = "admin"}
             IN  loans'[l].status = "approved" <=> admins = {loans[l].requested_by}]_vars

\* the requester became admin after asking: the deciding vote approves outright
C15_Witness ==
    \E l \in LoanIds :
        /\ lastOp = Op("cast_vote", "ok", l, NoKey)
        /\ loans[l].requested_by # Creator
        /\ is_group_admin(loans[l].requested_by)
        /\ loans[l].status = "approved"
        /\ get_approval_count(votes, l) >= 1

\* C16: a loan never holds two votes of the same user; a vote is added only
\* for a pending loan, by an active member other than the requester who has
\* not voted on it yet, so a second vote, the requester's vote, a
\* non-member's vote and a vote on a loan that is not pending are refused,
\* and a refused vote adds no vote and changes no status.
C16_OneVoteEach ==
    [][/\ \A v, w \in votes' :
             v.loan_id = w.loan_id /\ v.user_id = w.user_id => v = w
       /\ \A v \in votes' \ votes :
             /\ loans[v.loan_id].status = "pending"
             /\ members[v.user_id].active
             /\ v.user_id # loans[v.loan_id].requested_by
             /\ ~\E w \in votes : w.loan_id = v.loan_id /\ w.user_id = v.user_id
       /\ \A l \in LoanIds, u \in Users :
             ( \/ \E w \in votes : w.loan_id = l /\ w.user_id = u
               \/ u = loans[l].requested_by
               \/ ~members[u].active
               \/ loans[l].status # "pending" ) => ~can_vote(u, l)
       /\ lastOp'.op = "cast_vote" =>
             IF lastOp'.res = "ok"
             THEN Cardinality(votes') = Cardinality(votes) + 1
             ELSE UNCHANGED dbvars]_vars

\* both voters have voted, one each way, and the loan is still pending: every
\* further vote, by either of them or by the requester, is refused
C16_Witness ==
    \E l \in LoanIds :
        /\ lastOp = Op("cast_vote", "AuthorizationError", l, NoKey)
        /\ get_active_member_count = 3
        /\ loans[l].status = "pending"
        /\ get_approval_count(votes, l) = 1
        /\ get_rejection_count(votes, l) = 1

C18_BorrowerExcluded ==
    [][/\ \A s \in snapshots' : s.user_id # loans'[s.loan_id].requested_by
       /\ \A i \in 1..Len(distributions') :
             distributions'[i].beneficiary_id
                 # loans'[distributions'[i].loan_id].requested_by
       /\ \A r \in RepaymentIds :
             lastOp' = Op("approve_repayment", "ok", r, NoKey)
                 /\ repayments[r].status = "pending"
             => LET borrower == loans[repayments[r].loan_id].requested_by
                IN  memberLedger'[borrower].interest_earned
                        = memberLedger[borrower].interest_earned]_vars

\* interest of a repayment has been distributed although the borrower holds
\* contributed principal of their own
C18_Witness ==
    \E r \in RepaymentIds :
        LET borrower == loans[repayments[r].loan_id].requested_by
        IN  /\ lastOp = Op("approve_repayment", "ok", r, NoKey)
            /\ memberLedger[borrower].principal_contributed > 0
            /\ \E i \in 1..Len(distributions) : distributions[i].repayment_id = r
            /\ memberLedger[borrower].interest_earned = RZero

\* C19: snapshots of a loan exist only once the loan is disbursed, they are
\* created in the step that disburses it, and from then on the set of the
\* loan's snapshots, with each snapshot's amount and percentage, never
\* changes, whatever contributions, departures or repayments follow.
C19_SnapshotImmutable ==
    [][/\ \A s \in snapshots' :
             loans'[s.loan_id].status \in {"disbursed", "completed"}
       /\ \A s \in snapshots' \ snapshots :
             /\ loans[s.loan_id].status = "approved"
             /\ loans'[s.loan_id].status = "disbursed"
             /\ lastOp' = Op("disburse", "ok", s.loan_id, NoKey)
       /\ \A l \in LoanIds :
             loans[l].status \in {"disbursed", "completed"}
             => {s \in snapshots' : s.loan_id = l} = {s \in snapshots : s.loan_id = l}]_vars

\* C20: submitting a repayment and rejecting a repayment leave the wallet
\* balance and totals, the ledger, every member ledger, and each loan's
\* repaid counters and status unchanged.
C20_SubmitRejectFrame ==
    [][lastOp'.op \in {"submit_repayment", "reject_repayment"} =>
          /\ UNCHANGED <<wallet, ledger, memberLedger>>
          /\ Len(loans') = Len(loans)
          /\ \A l \in LoanIds :
                /\ loans'[l].status = loans[l].status
                /\ loans'[l].total_repaid = loans[l].total_repaid
                /\ loans'[l].total_principal_repaid = loans[l].total_principal_repaid
                /\ loans'[l].total_interest_repaid = loans[l].total_interest_repaid]_vars

\* a submitted repayment has been rejected while an earlier one was approved
C20_Witness ==
    \E r \in RepaymentIds :
        /\ lastOp = Op("reject_repayment", "ok", r, NoKey)
        /\ repayments[r].status = "rejected"
        /\ loans[repayments[r].loan_id].status = "disbursed"
        /\ loans[repayments[r].loan_id].total_repaid > 0

\* C21: the approval that brings a loan's total_repaid to its total_repayable
\* or beyond sets the loan to completed in that same step, and from then on
\* no repayment can be submitted on the loan.
C21_CompletedOnCrossing ==
    [][/\ \A r \in RepaymentIds :
             lastOp' = Op("approve_repayment", "ok", r, NoKey)
                 /\ repayments[r].status = "pending"
             => LET l == repayments[r].loan_id
                IN  loans'[l].total_repaid >= loans'[l].total_repayable
                    => loans'[l].status = "completed"
       /\ \A l \in LoanIds :
             loans[l].status = "completed" =>
                 /\ loans'[l].status = "completed"
                 /\ \A u \in Users : ~can_repay(u, l)
       /\ Len(repayments') > Len(repayments) =>
             loans[repayments'[Len(repayments')].loan_id].status # "completed"
       /\ lastOp'.op = "submit_repayment" /\ lastOp'.res = "ok"
             => Len(repayments') = Len(repayments) + 1]_vars

\* the borrower tries to repay a loan that one exact repayment has completed
C21_Witness ==
    \E l \in LoanIds :
        /\ lastOp = Op("submit_repayment", "WalletError", l, NoKey)
        /\ loans[l].status = "completed"
        /\ loans[l].total_repaid = loans[l].total_repayable

\* C22: a successful approve_repayment appends exactly one repayment ledger
\* entry, positive and for the full amount of the repayment, and raises the
\* wallet balance by exactly that amount; every other entry it appends is an
\* interest_distribution entry of amount zero.
C22_OneBalanceMovement ==
    [][\A r \in RepaymentIds :
          lastOp' = Op("approve_repayment", "ok", r, NoKey)
              /\ repayments[r].status = "pending"
          => LET n == Len(ledger)
                 added == (n + 1)..Len(ledger')
                 repaid == {i \in added : ledger'[i].transaction_type = "repayment"}
             IN  /\ SubSeq(ledger', 1, n) = ledger
                 /\ Cardinality(repaid) = 1
                 /\ \A i \in repaid :
                       /\ ledger'[i].amount = repayments[r].amount
                       /\ ledger'[i].amount > 0
                       /\ ledger'[i].reference_id = r
                 /\ \A i \in added \ repaid :
                       /\ ledger'[i].transaction_type = "interest_distribution"
                       /\ ledger'[i].amount = 0
                 /\ wallet'.balance = wallet.balance + repayments[r].amount]_vars

\* an approval that also credited interest to the snapshot holder
C22_Witness ==
    \E r \in RepaymentIds :
        /\ lastOp = Op("approve_repayment", "ok", r, NoKey)
        /\ Len(ledger) >= 2
        /\ ledger[Len(ledger)].transaction_type = "interest_distribution"
        /\ ledger[Len(ledger)].amount = 0
        /\ ledger[Len(ledger) - 1].transaction_type = "repayment"
        /\ ledger[Len(ledger) - 1].reference_id = r
        /\ ledger[Len(ledger) - 1].amount = repayments[r].amount

\* C23: a repayment that is already approved or rejected cannot be approved
\* or rejected again: the call fails and changes nothing (ledger, wallet,
\* loan totals, member ledgers), so no repayment ever has more than one
\* repayment ledger entry.
C23_DecidedOnce ==
    [][/\ \A r \in RepaymentIds :
             repayments[r].status \in {"approved", "rejected"} =>
                 /\ repayments'[r] = repayments[r]
                 /\ ( lastOp'.op \in {"approve_repayment", "reject_repayment"}
                      /\ lastOp'.id = r )
                    => lastOp'.res # "ok" /\ UNCHANGED dbvars
       /\ \A r \in 1..Len(repayments') :
             Cardinality({i \in 1..Len(ledger') :
                             /\ ledger'[i].transaction_type = "repayment"
                             /\ ledger'[i].reference_id = r}) <= 1]_vars

\* the admin tries to approve a repayment that was rejected before
C23_Witness ==
    \E r \in RepaymentIds :
        /\ lastOp = Op("approve_repayment", "WalletError", r, NoKey)
        /\ repayments[r].status = "rejected"
        /\ is_group_admin("A")

\* C24: in every reachable state each member ledger's total_balance equals
\* its principal_contributed plus its interest_earned, as the Float columns
\* hold them.
C24_LedgerIdentity ==
    binary64.tracked =>
        \A u \in Users :
            LET row == binary64.memberLedger[u]
            IN  row.total_balance = FAdd(row.principal_contributed, row.interest_earned)

\* C25: after recalculate, whatever the cache held before (also when only
\* the totals were stale), the cached balance is the sum of the non-reversed
\* ledger amounts, total_contributed the sum of the contribution entries,
\* total_disbursed the sum of the absolute disbursement entries, and the
\* dirty flag is clear.
C25_RecalculateRepairs ==
    [][lastOp'.op = "recalculate" =>
          /\ wallet'.balance = SumAmounts(NonReversed(ledger'))
          /\ wallet'.total_contributed =
                 SumAmounts(OfType(NonReversed(ledger'), "contribution"))
          /\ wallet'.total_disbursed =
                 -SumAmounts(OfType(NonReversed(ledger'), "loan_disbursement"))
          /\ ~wallet'.is_dirty]_vars

\* C26: recalculate called twice in a row with nothing in between: whenever
\* the last completed call is a recalculate, no further call of recalculate can
\* report a correction, change balance, total_contributed or total_disbursed,
\* or change the ledger.
C26_RecalculateIdempotent ==
    lastOp.op = "recalculate" =>
        ~ENABLED ( /\ Recalculate
                   /\ ~( /\ lastOp'.res = "ok"
                         /\ wallet'.balance = wallet.balance
                         /\ wallet'.total_contributed = wallet.total_contributed
                         /\ wallet'.total_disbursed = wallet.total_disbursed
                         /\ ledger' = ledger ) )

\* a call that follows a repair of a cache that had lost a contribution
C26_Witness ==
    /\ lastOp = Op("recalculate", "ok", 0, NoKey)
    /\ Len(OfType(ledger, "contribution")) = 2
    /\ wallet.balance = SumAmounts(NonReversed(ledger))
    /\ wallet.total_contributed = wallet.balance
    /\ \A s \in Sessions : inflight[s].pc = "idle"

\* C27: a terms edit changes a loan's amount, rate, duration or repayment
\* type only while the loan is pending, pre_approved, approved or disbursed;
\* on a rejected or completed loan it leaves the four terms as they were.
C27_TermsEditableStatuses ==
    [][\A l \in LoanIds :
          ( /\ lastOp'.op = "edit_loan"
            /\ lastOp'.id = l
            /\ loans[l].status \notin {"pending", "pre_approved", "approved", "disbursed"} )
          => /\ loans'[l].amount = loans[l].amount
             /\ loans'[l].interest_rate = loans[l].interest_rate
             /\ loans'[l].loan_duration_months = loans[l].loan_duration_months
             /\ loans'[l].repayment_type = loans[l].repayment_type]_vars

\* C28: once an installment of a loan is marked paid, an edit of a
\* pre_approved, approved or disbursed loan is refused when it changes a
\* term, and the loan's terms, totals, repaid counters, status and schedule
\* (like every other row) stay as they were before the attempt.
C28_PaidScheduleKept ==
    [][\A l \in LoanIds :
          LET paid == \E i \in 1..Len(loans[l].emis) : loans[l].emis[i].is_paid
              open == loans[l].status \in {"pre_approved", "approved", "disbursed"}
          IN  /\ (lastOp'.op = "edit_loan" /\ lastOp'.id = l /\ paid /\ open)
                    => UNCHANGED dbvars /\ lastOp'.res \in {"flash", "ok"}
              /\ \A u \in Admin, f \in TermForms :
                    ( /\ paid /\ open
                      /\ EditedFields(loans[l], f) # loans[l]
                      /\ edit_loan(l, u, f) )
                    => lastOp'.res = "flash"]_vars

\* an edit refused on a disbursed loan whose first installment is paid
C28_Witness ==
    /\ lastOp = Op("edit_loan", "flash", 1, NoKey)
    /\ Len(loans) = 1
    /\ loans[1].status = "disbursed"
    /\ Len(loans[1].emis) = 2
    /\ loans[1].emis[1].is_paid
    /\ ~loans[1].emis[2].is_paid
    /\ loans[1].total_repaid = 1000

\* C29: an edit that changes a term of a pre_approved loan puts the loan
\* back to pending exactly when its approvals are below the majority of the
\* eligible voters in force (the smaller of the frozen count and the active
\* members other than the requester); otherwise the loan stays pre_approved.
\* An edit never changes the status of an approved or disbursed loan.
C29_RevertBelowMajority ==
    [][\A l \in LoanIds :
          ( /\ lastOp'.op = "edit_loan"
            /\ lastOp'.id = l
            /\ loans[l].status \in {"pre_approved", "approved", "disbursed"} )
          => LET others == get_active_member_count - 1
                 eff == IF loans[l].total_eligible_voters < others
                        THEN loans[l].total_eligible_voters ELSE others
                 req == (eff \div 2) + 1
                 approvals == Cardinality({v \in votes : v.loan_id = l /\ v.approved})
                 changed == \/ loans'[l].amount # loans[l].amount
                            \/ loans'[l].interest_rate # loans[l].interest_rate
                            \/ loans'[l].loan_duration_months # loans[l].loan_duration_months
                            \/ loans'[l].repayment_type # loans[l].repayment_type
             IN  loans'[l].status =
                    IF loans[l].status = "pre_approved" /\ changed /\ approvals < req
                    THEN "pending" ELSE loans[l].status]_vars

\* C30: in the group of admin A and members B and C with 10000 in the
\* wallet, B's request of 3000 (bullet, interest 300) is pre_approved once A
\* and C have approved and approved once A gives the final approval; A's
\* disbursement leaves a balance of 7000 and snapshot rows for A and C only,
\* each with its share of the contributions; when B's repayment of 3300 in
\* one payment is approved the loan is completed, the balance is 10300 and
\* A and C are credited the 300 of interest by their snapshot percentages.
C30_WorkedExample ==
    [][\A l \in LoanIds :
          LET loan == loans[l]
              savers == {u \in {"A", "C"} : memberLedger[u].principal_contributed > 0}
              pool == memberLedger["A"].principal_contributed
                         + memberLedger["C"].principal_contributed
              Yes(vs) == {v.user_id : v \in {w \in vs : w.loan_id = l /\ w.approved}}
          IN  /\ ( /\ lastOp' = Op("cast_vote", "ok", l, NoKey)
                    /\ loan.status = "pending"
                    /\ Yes(votes') = {"A", "C"} )
                  => loans'[l].status = "pre_approved"
              /\ ( /\ lastOp' = Op("final_approve_loan", "ok", l, NoKey) )
                  => loan.status = "pre_approved" /\ loans'[l].status = "approved"
              /\ ( /\ lastOp' = Op("disburse", "ok", l, NoKey) )
                  => /\ loan.status = "approved"
                     /\ loan.total_interest = 300 /\ loan.total_repayable = 3300
                     /\ loans'[l].status = "disbursed"
                     /\ wallet'.balance = 7000
                     /\ {x.user_id : x \in {y \in snapshots' : y.loan_id = l}} = savers
                     /\ \A x \in snapshots' :
                           x.contribution_percentage =
                               Rat(memberLedger[x.user_id].principal_contributed * 100, pool)
              /\ \A r \in RepaymentIds :
                    ( /\ lastOp' = Op("approve_repayment", "ok", r, NoKey)
                      /\ repayments[r].loan_id = l
                      /\ repayments[r].amount = 3300
                      /\ loan.total_repaid = 0 )
                    => /\ loans'[l].status = "completed"
                       /\ wallet'.balance = 10300
                       /\ \A u \in Users :
                             memberLedger'[u].interest_earned =
                                 IF \E x \in snapshots : x.loan_id = l /\ x.user_id = u
                                 THEN LET x == CHOOSE y \in snapshots :
                                                   y.loan_id = l /\ y.user_id = u
                                      IN  RAdd(memberLedger[u].interest_earned,
                                               Rat(x.contribution_amount * 300,
                                                   x.total_eligible_pool))
                                 ELSE memberLedger[u].interest_earned
                       /\ (\E x \in snapshots : x.loan_id = l)
                             => RAdd(memberLedger'["A"].interest_earned,
                                     memberLedger'["C"].interest_earned) = RInt(300)
                       /\ memberLedger'["B"].interest_earned = RZero]_vars

\* the example's end with A holding 4000 and C 6000: 120 and 180 of interest
C30_Witness ==
    /\ lastOp = Op("approve_repayment", "ok", 1, NoKey)
    /\ Len(repayments) = 1
    /\ repayments[1].amount = 3300
    /\ loans[1].status = "completed"
    /\ wallet.balance = 10300
    /\ memberLedger["A"].principal_contributed = 4000
    /\ memberLedger["C"].principal_contributed = 6000
    /\ memberLedger["A"].interest_earned = RInt(120)
    /\ memberLedger["C"].interest_earned = RInt(180)
    /\ {x.user_id : x \in snapshots} = {"A", "C"}

\* C31: the reducing-balance schedule generated for a loan of principal P at
\* annual rate R over N months has N entries, its principal components sum
\* to P within one rounding unit, and its interest components sum to the
\* loan's total_interest (emi * N - P).
C31_EmiSums ==
    \A l \in LoanIds :
        LET loan == loans[l]
            n == Len(loan.emis)
            SumPrincipal[i \in 0..n] ==
                IF i = 0 THEN RZero ELSE RAdd(SumPrincipal[i - 1], loan.emis[i].principal_component)
            SumInterest[i \in 0..n] ==
                IF i = 0 THEN RZero ELSE RAdd(SumInterest[i - 1], loan.emis[i].interest_component)
        IN  ( /\ loan.status \in {"pre_approved", "approved"}
              /\ loan.repayment_type = "emi"
              /\ ~group.use_flat_rate )
            => /\ n = loan.loan_duration_months
               /\ loan.total_interest = RRound(loan.emi_amount) * n - loan.approved_amount
               /\ RSub(SumPrincipal[n], RInt(loan.approved_amount)) \in
                      {RInt(0 - 1), RZero, RInt(1)}
               /\ SumInterest[n] = RInt(loan.total_interest)

\* C32: a loan whose terms have been computed, by any of the three methods,
\* stores total_repayable = approved_amount + total_interest, and a bullet
\* loan has no schedule entries.
C32_RepayableIsPrincipalPlusInterest ==
    \A l \in LoanIds :
        loans[l].status \in {"pre_approved", "approved"}
        => /\ loans[l].total_repayable = loans[l].approved_amount + loans[l].total_interest
           /\ loans[l].repayment_type = "bullet" => loans[l].emis = <<>>

\* C33: the ledger is append-only: no step removes an entry of the wallet's
\* ledger, and the type, amount and idempotency key of an entry that exists
\* stay as they were written (the model has one wallet, so an entry's wallet
\* is fixed by construction).
C33_LedgerAppendOnly ==
    [][/\ Len(ledger') >= Len(ledger)
       /\ \A i \in 1..Len(ledger) :
             /\ ledger'[i].transaction_type = ledger[i].transaction_type
             /\ ledger'[i].amount = ledger[i].amount
             /\ ledger'[i].idempotency_key = ledger[i].idempotency_key]_vars

\* a recalculation over a ledger that holds a contribution, a disbursement, a
\* repayment and an interest-distribution row, all of them still in place
C33_Witness ==
    /\ lastOp.op = "recalculate"
    /\ \E i \in 1..Len(ledger) : ledger[i].transaction_type = "contribution"
    /\ \E i \in 1..Len(ledger) : ledger[i].transaction_type = "loan_disbursement"
    /\ \E i \in 1..Len(ledger) : ledger[i].transaction_type = "repayment"
    /\ \E i \in 1..Len(ledger) : ledger[i].transaction_type = "interest_distribution"

\* C34: after any sequence of add_member, leave_group, remove_member and
\* transfer_admin, a group with an active member has an active admin; and a
\* sole admin's attempt to leave is refused and changes no row.
C34_AdminRemains ==
    [][/\ (\E u \in Users : members'[u].active)
             => \E u \in Users : members'[u].active /\ members'[u].role = "admin"
       /\ \A u \in Users :
             ( /\ members[u].active
               /\ members[u].role = "admin"
               /\ \A v \in Users \ {u} : ~(members[v].active /\ members[v].role = "admin")
               /\ leave_group(u) )
             => lastOp'.res = "AuthorizationError" /\ UNCHANGED dbvars]_vars

\* the sole admin of a group of three, none of them with a loan, was refused
C34_Witness ==
    /\ lastOp = Op("leave_group", "AuthorizationError", 0, NoKey)
    /\ \A u \in Users : members[u].active
    /\ Cardinality({u \in Users : members[u].role = "admin"}) = 1
    /\ members["B"].role = "admin"
    /\ loans = <<>>
    /\ repayments = <<>>

\* C35: the requester of a loan that is pending, pre_approved, approved, or
\* disbursed and not fully repaid cannot leave the group or be removed: the
\* attempt is refused and the membership stays active, so a loan that is
\* neither rejected nor completed has a requester who is an active member.
C35_BorrowerStays ==
    [][/\ \A l \in LoanIds :
             ( /\ lastOp'.op \in {"leave_group", "remove_member"}
               /\ members[loans[l].requested_by].active
               /\ \/ loans[l].status \in {"pending", "pre_approved", "approved"}
                  \/ loans[l].status = "disbursed" /\ ~is_fully_repaid(loans[l]) )
             => members'[loans[l].requested_by].active
       /\ \A l \in DOMAIN loans' :
             loans'[l].status \notin {"rejected", "completed"}
             => members'[loans'[l].requested_by].active]_vars

\* C36 as stated: a loan leaves pending for pre_approved or approved only in
\* a step whose vote is an approval.
C36_ApprovedByApprovalOnly ==
    [][\A l \in LoanIds :
          (loans[l].status = "pending" /\ loans'[l].status \in {"pre_approved", "approved"})
          => \E v \in votes' \ votes : v.loan_id = l /\ v.approved]_vars

\* C36 amended: a loan leaves pending for pre_approved or approved only in a
\* vote, and the vote is an approval unless members have departed so that the
\* approvals recorded before it already reach the majority of the voters in
\* force (the smaller of the frozen count and the active members other than
\* the requester); a rejection then completes the approval.
C36_RejectionApprovesOnlyAfterDeparture ==
    [][\A l \in LoanIds :
          LET current == Cardinality({u \in Users : members[u].active}) - 1
              eligible == IF current < loans[l].total_eligible_voters
                          THEN current ELSE loans[l].total_eligible_voters
              approvals == Cardinality({v \in votes : v.loan_id = l /\ v.approved})
          IN  (loans[l].status = "pending" /\ loans'[l].status \in {"pre_approved", "approved"})
              => /\ lastOp'.op = "cast_vote"
                 /\ \E v \in votes' \ votes : v.loan_id = l
                 /\ \/ \E v \in votes' \ votes : v.loan_id = l /\ v.approved
                    \/ /\ current < loans[l].total_eligible_voters
                       /\ approvals >= (eligible \div 2) + 1]_vars

\* B's loan pre-approved by C's rejection: A approved while two votes were
\* needed, handed the administration to C and left
C36_Witness ==
    /\ lastOp = Op("cast_vote", "ok", 1, NoKey)
    /\ loans[1].requested_by = "B"
    /\ loans[1].status = "pre_approved"
    /\ loans[1].required_approvals = 2
    /\ ~members["A"].active
    /\ votes = {[loan_id |-> 1, user_id |-> "A", approved |-> TRUE],
                [loan_id |-> 1, user_id |-> "C", approved |-> FALSE]}

\* C37: for every loan, total_repaid equals the sum of the amounts of the
\* loan's approved repayments, also after an edit of the terms of a
\* disbursed loan.
C37_RepaidIsSumOfApproved ==
    \A l \in LoanIds :
        LET n == Len(repayments)
            SumApproved[i \in 0..n] ==
                IF i = 0 THEN 0
                ELSE SumApproved[i - 1]
                     + IF repayments[i].loan_id = l /\ repayments[i].status = "approved"
                       THEN repayments[i].amount ELSE 0
        IN  loans[l].total_repaid = SumApproved[n]

\* C38: when every operation runs from its first read to its commit with no
\* other in between, the wallet's balance is never negative.
C38_BalanceNeverNegative == wallet.balance >= 0

\* a disbursement refused because the approved loan (raised to 6000 by an
\* edit) exceeds the balance
C38_Witness ==
    /\ lastOp = Op("disburse", "WalletError", 1, NoKey)
    /\ loans[1].status = "approved"
    /\ loans[1].approved_amount = 6000
    /\ wallet.balance = 5000

\* C39: the votes recorded on a loan never exceed the loan's frozen
\* total_eligible_voters, so the reported pending_votes
\* (total_eligible_voters - votes_cast) is never negative, also when members
\* join or leave while the vote is open.
C39_VotesWithinEligible ==
    \A l \in LoanIds :
        Cardinality({v \in votes : v.loan_id = l}) <= loans[l].total_eligible_voters

\* C40 as stated: once every active member other than the requester has
\* voted on a pending loan, the loan is no longer pending.
C40_VotingDecides ==
    \A l \in LoanIds :
        ( /\ loans[l].status = "pending"
          /\ \E u \in DOMAIN members : members[u].active /\ u # loans[l].requested_by )
        => \E u \in DOMAIN members :
              /\ members[u].active
              /\ u # loans[l].requested_by
              /\ ~\E v \in votes : v.loan_id = l /\ v.user_id = u

\* C40 amended: a vote after which every active member other than the
\* requester has voted leaves the loan pending only when the votes recorded
\* on it are evenly split between approvals and rejections; otherwise the
\* vote decides the loan (pre_approved, approved or rejected).
C40_UndecidedOnlyWhenSplit ==
    [][\A l \in LoanIds :
          ( /\ lastOp'.op = "cast_vote"
            /\ lastOp'.id = l
            /\ votes' # votes
            /\ \A u \in DOMAIN members :
                  (members'[u].active /\ u # loans[l].requested_by)
                  => \E v \in votes' : v.loan_id = l /\ v.user_id = u
            /\ loans'[l].status = "pending" )
          => Cardinality({v \in votes' : v.loan_id = l /\ v.approved})
             = Cardinality({v \in votes' : v.loan_id = l /\ ~v.approved})]_vars

\* A's loan with two eligible voters, of whom B approved and C rejected:
\* everyone has voted and the loan is still pending
C40_Witness ==
    /\ lastOp = Op("cast_vote", "ok", 1, NoKey)
    /\ loans[1].requested_by = "A"
    /\ loans[1].status = "pending"
    /\ loans[1].total_eligible_voters = 2
    /\ members["B"].active
    /\ members["C"].active
    /\ votes = {[loan_id |-> 1, user_id |-> "B", approved |-> TRUE],
                [loan_id |-> 1, user_id |-> "C", approved |-> FALSE]}

====
